---- MODULE Spec2Model ----
(***************************************************************************)
(* A model of code-review-js: the diff line mapper (src/src/diff_utils.js) *)
(* and the AST context extractors (src/src/ast_context.js,                 *)
(* src/src/ast_utils.js and the Vue extractor src/unnamed/part_002).       *)
(*                                                                         *)
(* Text is a sequence of one-character strings.  SpecDiff runs             *)
(* parseDiffNewlineMap over a diff text, one loop iteration per step.      *)
(* SpecAst runs one extraction (script or component file) from the         *)
(* candidate collection to the emitted Sections.  SpecExtract runs         *)
(* extractAstContext from the dispatch on the file path to the returned    *)
(* result, twice, with the failures of each step.  SpecHunk runs           *)
(* addLineNumbersToDiff, one hunk line per step.  SpecReview runs          *)
(* reviewFiles under p-limit; SpecReviewLive adds its scheduling.          *)
(***************************************************************************)
EXTENDS Integers, Sequences, FiniteSets, TLC

VARIABLES
    pc,               \* position of the running function
    diffText,         \* parseDiffNewlineMap: its argument
    i,                \* parseDiffNewlineMap: loop index (0-based)
    currentNewLine,   \* parseDiffNewlineMap: new-file line counter, -1 before a header
    mapping,          \* parseDiffNewlineMap: [diff position, new-file line] pairs
    addedLines,       \* reviewSingleFile: the Added-Line Set
    lang,             \* extractAstContext: "js" or "vue" (by file extension)
    code,             \* the source text handed to the parser (file or script region)
    nodes,            \* the target nodes of the parsed AST, in traversal pre-order
    scriptStartLine,  \* extractScriptContext: line of the region in the .vue file
    config,           \* getAstConfig()
    allSections,      \* the candidates collected by the traversal
    selectedSections, \* the result of selectSmallestSections
    result,           \* the Sections returned to the caller
    filePath,         \* extractAstContext: its filePath argument
    world,            \* what the environment has answered so far (config, file, parser)
    astConfig,        \* ast_utils.js: the module-level configuration cache
    effects,          \* what the running call has touched (config load, file read)
    errors,           \* result.errors of the running extractor
    thrown,           \* the exception in flight, if any
    returned,         \* what extractAstContext returned, if it has
    calls,            \* number of the running call of extractAstContext
    previous,         \* what the previous call returned
    hunks,            \* addLineNumbersToDiff: the hunks of splitHunks
    hunkIndex,        \* addLineNumbersToDiff: the hunk being numbered
    lineIndex,        \* computeHunkLineNumbers: hunk lines consumed so far
    oldLineNumber,    \* computeHunkLineNumbers: old-file counter
    newLineNumber,    \* computeHunkLineNumbers: new-file counter
    oldLinesMap,      \* computeHunkLineNumbers: old line number -> line
    newLinesMap,      \* computeHunkLineNumbers: new line number -> line
    temp,             \* computeHunkLineNumbers: [header, line] pairs of the hunk
    extendedDiffParts, \* addLineNumbersToDiff: the numbered hunks
    allOldLinesMap,   \* addLineNumbersToDiff: merged old map
    allNewLinesMap,   \* addLineNumbersToDiff: merged new map
    files,            \* reviewFiles: the input list of [path, diff]
    maxParallel,      \* config.maxParallel
    task,             \* reviewFiles: per input position, where its review stands
    queue,            \* p-limit: positions waiting for a slot
    activeCount,      \* p-limit: reviews started and not finished
    results,          \* reviewFiles: per input position, what its promise resolved to
    completed,        \* positions in the order their reviews finished
    reviews,          \* reviewFiles: the returned map, path -> result
    clock,            \* the time, in milliseconds since the call
    timeoutMs,        \* config.timeoutMs
    duration,         \* how long the wrapped work takes
    work,             \* withTimeout: the wrapped promise
    timer,            \* withTimeout: the time the armed timer is due, if armed
    race,             \* withTimeout: the state of Promise.race
    kinds,            \* per node of the AST: target, other, or target without loc
    maxDepth,         \* config.maxDepth
    limiters,         \* the currentDepth of every depth limiter created so far
    walk,             \* number of the running traversal
    stack,            \* the nodes entered and not yet exited (0: Program)
    cursor            \* the next node of the AST in traversal order

extractVars == <<filePath, world, astConfig, effects, errors, thrown, returned,
                 calls, previous>>
hunkVars == <<hunks, hunkIndex, lineIndex, oldLineNumber, newLineNumber,
              oldLinesMap, newLinesMap, temp, extendedDiffParts, allOldLinesMap,
              allNewLinesMap>>
reviewVars == <<files, maxParallel, task, queue, activeCount, results, completed,
                reviews>>
timeoutVars == <<clock, timeoutMs, duration, work, timer, race>>
traverseVars == <<kinds, maxDepth, limiters, walk, stack, cursor>>
guardVars == <<timeoutVars, traverseVars>>
restVars == <<extractVars, hunkVars, reviewVars, guardVars>>

vars == <<pc, diffText, i, currentNewLine, mapping, addedLines, lang, code, nodes,
          scriptStartLine, config, allSections, selectedSections, result, restVars>>

diffVars == <<diffText, i, currentNewLine, mapping>>
astVars == <<lang, code, nodes, scriptStartLine, config, allSections,
             selectedSections, result>>

(***************************************************************************)
(* The parts of the state a specification does not use stay as they are.   *)
(***************************************************************************)
IdleExtract ==
    /\ filePath = <<>>
    /\ world = {}
    /\ astConfig = <<>>
    /\ effects = {}
    /\ errors = <<>>
    /\ thrown = <<>>
    /\ returned = <<>>
    /\ calls = 1
    /\ previous = <<>>

IdleHunk ==
    /\ hunks = <<>>
    /\ hunkIndex = 0
    /\ lineIndex = 0
    /\ oldLineNumber = 0
    /\ newLineNumber = 0
    /\ oldLinesMap = {}
    /\ newLinesMap = {}
    /\ temp = <<>>
    /\ extendedDiffParts = <<>>
    /\ allOldLinesMap = {}
    /\ allNewLinesMap = {}

IdleReview ==
    /\ files = <<>>
    /\ maxParallel = 1
    /\ task = <<>>
    /\ queue = <<>>
    /\ activeCount = 0
    /\ results = <<>>
    /\ completed = <<>>
    /\ reviews = {}

IdleGuards ==
    /\ clock = 0
    /\ timeoutMs = 1
    /\ duration = 0
    /\ work = "none"
    /\ timer = <<>>
    /\ race = "none"
    /\ kinds = <<>>
    /\ maxDepth = 1
    /\ limiters = <<>>
    /\ walk = 0
    /\ stack = <<>>
    /\ cursor = 0

(***************************************************************************)
(* Bounds of the model.                                                    *)
(***************************************************************************)
MaxDiffLines == 4

(***************************************************************************)
(* Strings.                                                                *)
(***************************************************************************)
NL == "\n"

Digits == <<"0", "1", "2", "3", "4", "5", "6", "7", "8", "9">>

IsDigit(c) == \E d \in 1..10 : Digits[d] = c

DigitVal(c) == (CHOOSE d \in 1..10 : Digits[d] = c) - 1

\* parseInt(s, 10) of a non-empty digit string
RECURSIVE ParseInt(_)
ParseInt(s) ==
    IF Len(s) = 0 THEN 0
    ELSE 10 * ParseInt(SubSeq(s, 1, Len(s) - 1)) + DigitVal(s[Len(s)])

\* String(n) of a non-negative integer, as in a template literal
RECURSIVE NumToStr(_)
NumToStr(n) ==
    IF n < 10 THEN <<Digits[n + 1]>>
    ELSE NumToStr(n \div 10) \o <<Digits[(n % 10) + 1]>>

\* s.startsWith(prefix, at p), 1-based
HasAt(s, p, lit) ==
    /\ p >= 1
    /\ p + Len(lit) - 1 <= Len(s)
    /\ SubSeq(s, p, p + Len(lit) - 1) = lit

StartsWith(s, prefix) == HasAt(s, 1, prefix)

\* s.split('\n')
RECURSIVE Split(_)
Split(s) ==
    IF \A k \in 1..Len(s) : s[k] # NL THEN <<s>>
    ELSE LET k == CHOOSE k \in 1..Len(s) :
                      s[k] = NL /\ \A j \in 1..(k - 1) : s[j] # NL
         IN <<SubSeq(s, 1, k - 1)>> \o Split(SubSeq(s, k + 1, Len(s)))

\* parts.join(sep)
RECURSIVE Join(_, _)
Join(parts, sep) ==
    IF Len(parts) = 0 THEN <<>>
    ELSE IF Len(parts) = 1 THEN parts[1]
    ELSE parts[1] \o sep \o Join(Tail(parts), sep)

\* s.substring(from, to) with 0-based offsets, to exclusive
Substring(s, from, to) ==
    LET a == IF from < 0 THEN 0 ELSE IF from > Len(s) THEN Len(s) ELSE from
        b == IF to < 0 THEN 0 ELSE IF to > Len(s) THEN Len(s) ELSE to
        lo == IF a < b THEN a ELSE b
        hi == IF a < b THEN b ELSE a
    IN SubSeq(s, lo + 1, hi)

\* the number of digits at the head of s from position p on (\d+ is greedy)
RECURSIVE DigitRun(_, _)
DigitRun(s, p) ==
    IF p >= 1 /\ p <= Len(s) /\ IsDigit(s[p]) THEN 1 + DigitRun(s, p + 1) ELSE 0

\* the length of an optional group (,\d+)? at position p
OptLen(s, p) ==
    IF HasAt(s, p, <<",">>) /\ DigitRun(s, p + 1) > 0
    THEN 1 + DigitRun(s, p + 1)
    ELSE 0

(***************************************************************************)
(* parseDiffNewlineMap (src/src/diff_utils.js).                            *)
(***************************************************************************)
NoMatch == [matched |-> FALSE, oldStart |-> 0, oldLen |-> 0, newStart |-> 0, newLen |-> 0]

\* /@@ -\d+(,\d+)? \+(\d+)(,\d+)? @@/ tried at position p of the line
HeaderMatchAt(s, p) ==
    LET a == p + 4
        n1 == DigitRun(s, a)
        b == a + n1
        g1 == OptLen(s, b)
        c == b + g1
        d == c + 2
        n2 == DigitRun(s, d)
        e == d + n2
        g3 == OptLen(s, e)
        f == e + g3
    IN IF /\ HasAt(s, p, <<"@", "@", " ", "-">>)
          /\ n1 > 0
          /\ HasAt(s, c, <<" ", "+">>)
          /\ n2 > 0
          /\ HasAt(s, f, <<" ", "@", "@">>)
       THEN [matched |-> TRUE,
             oldStart |-> ParseInt(SubSeq(s, a, b - 1)),
             oldLen |-> IF g1 > 0 THEN ParseInt(SubSeq(s, b + 1, c - 1)) ELSE 1,
             newStart |-> ParseInt(SubSeq(s, d, e - 1)),
             newLen |-> IF g3 > 0 THEN ParseInt(SubSeq(s, e + 1, f - 1)) ELSE 1]
       ELSE NoMatch

\* regex.exec(line): the leftmost match
HeaderExec(s) ==
    IF \E p \in 1..Len(s) : HeaderMatchAt(s, p).matched
    THEN HeaderMatchAt(s, CHOOSE p \in 1..Len(s) :
              /\ HeaderMatchAt(s, p).matched
              /\ \A q \in 1..(p - 1) : ~HeaderMatchAt(s, q).matched)
    ELSE NoMatch

diffLines == Split(diffText)

line == diffLines[i + 1]

IsHunkLine(l) == StartsWith(l, <<"@", "@">>)

\* line.startsWith('+') && !line.startsWith('+++')
IsAddedLine(l) == StartsWith(l, <<"+">>) /\ ~StartsWith(l, <<"+", "+", "+">>)

\* !line.startsWith('-') || line.startsWith('---')
IsCountedLine(l) == ~StartsWith(l, <<"-">>) \/ StartsWith(l, <<"-", "-", "-">>)

\* mutant: the counter is not advanced after a mapped '+' line
AfterAddedLine_Stuck(n) == n

\* the counter after a mapped '+' line
AfterAddedLine(n) == n + 1

InLoop == pc = "parse" /\ i < Len(diffLines)

\* line 21-26: a line starting with '@@'
OnHunkHeader ==
    /\ InLoop
    /\ IsHunkLine(line)
    /\ currentNewLine' = IF HeaderExec(line).matched
                         THEN HeaderExec(line).newStart
                         ELSE currentNewLine
    /\ i' = i + 1
    /\ UNCHANGED <<pc, diffText, mapping, addedLines, astVars, restVars>>

\* line 28-33: an added line
OnAddedLine ==
    /\ InLoop
    /\ ~IsHunkLine(line)
    /\ IsAddedLine(line)
    /\ IF currentNewLine # -1
       THEN /\ mapping' = Append(mapping, <<i + 1, currentNewLine>>)
            /\ currentNewLine' = AfterAddedLine(currentNewLine)
       ELSE UNCHANGED <<mapping, currentNewLine>>
    /\ i' = i + 1
    /\ UNCHANGED <<pc, diffText, addedLines, astVars, restVars>>

\* line 35-39: a context line (or anything else that is counted)
OnCountedLine ==
    /\ InLoop
    /\ ~IsHunkLine(line)
    /\ ~IsAddedLine(line)
    /\ IsCountedLine(line)
    /\ currentNewLine' = IF currentNewLine # -1 THEN currentNewLine + 1 ELSE currentNewLine
    /\ i' = i + 1
    /\ UNCHANGED <<pc, diffText, mapping, addedLines, astVars, restVars>>

\* a deleted line: no branch of the loop body applies
OnDeletedLine ==
    /\ InLoop
    /\ ~IsHunkLine(line)
    /\ ~IsAddedLine(line)
    /\ ~IsCountedLine(line)
    /\ i' = i + 1
    /\ UNCHANGED <<pc, diffText, currentNewLine, mapping, addedLines, astVars, restVars>>

\* parseDiffNewlineMap returns; reviewSingleFile builds the Added-Line Set
BuildAddedLines ==
    /\ pc = "parse"
    /\ i = Len(diffLines)
    /\ addedLines' = {mapping[k][2] : k \in 1..Len(mapping)}
    /\ pc' = "parsed"
    /\ UNCHANGED <<diffVars, astVars, restVars>>

(***************************************************************************)
(* The diff texts of the model: up to MaxDiffLines lines, each one of the  *)
(* lines below, joined by newlines.                                        *)
(***************************************************************************)
HeaderA == <<"@", "@", " ", "-", "1", " ", "+", "1", " ", "@", "@">>
HeaderB == <<"@", "@", " ", "-", "3", ",", "0", " ", "+", "4", ",", "2", " ", "@", "@">>
HeaderBad == <<"@", "@", " ", "b", "a", "d">>
AddA == <<"+", "a">>
AddPlusPlus == <<"+", "+", "+", "i">>
DelA == <<"-", "a">>
DelMinusMinus == <<"-", "-", "-", "i">>
ContextA == <<" ", "a">>

DiffLineSet == {HeaderA, HeaderB, HeaderBad, AddA, AddPlusPlus, DelA, DelMinusMinus, ContextA}

LinesUpTo(S, n) == UNION {[1..k -> S] : k \in 1..n}

IdleAst ==
    /\ lang = "none"
    /\ code = <<>>
    /\ nodes = <<>>
    /\ scriptStartLine = 1
    /\ config = [maxSnippetLength |-> 0, maxBlockSizeLines |-> 0]
    /\ allSections = <<>>
    /\ selectedSections = <<>>
    /\ result = <<>>

InitDiff ==
    /\ IdleGuards
    /\ pc = "parse"
    /\ diffText \in {Join(ls, <<NL>>) : ls \in LinesUpTo(DiffLineSet, MaxDiffLines)}
    /\ i = 0
    /\ currentNewLine = -1
    /\ mapping = <<>>
    /\ addedLines = {}
    /\ IdleAst
    /\ IdleExtract
    /\ IdleHunk
    /\ IdleReview

NextDiff ==
    \/ OnHunkHeader
    \/ OnAddedLine
    \/ OnCountedLine
    \/ OnDeletedLine
    \/ BuildAddedLines

SpecDiff == InitDiff /\ [][NextDiff]_vars

(***************************************************************************)
(* The parsed source: the text and the target nodes Babel finds in it.     *)
(* A node has the offsets node.start / node.end and the lines of node.loc. *)
(***************************************************************************)
MaxCodeLines == 3
MaxNodes == 3
MaxSnippetLength == 4
MaxBlockSizeLines == 1

LineText == <<"x", "y">>

CodeTexts == {Join([k \in 1..n |-> LineText], <<NL>>) : n \in 1..MaxCodeLines}

CountNL(s) == Cardinality({k \in 1..Len(s) : s[k] = NL})

\* the line of the position at offset off (0-based) of the text, as in node.loc
LineAt(text, off) == 1 + CountNL(SubSeq(text, 1, off))

\* a node starts on a character and ends after one
NodeRanges(text) ==
    {r \in [start : 0..(Len(text) - 1), end : 1..Len(text)] :
        /\ r.start < r.end
        /\ text[r.start + 1] # NL
        /\ text[r.end] # NL}

\* nodes of one tree are disjoint or nested, the inner one starting later
Laminar(S) ==
    \A a, b \in S :
        \/ a = b
        \/ (a.start < b.start /\ b.end <= a.end)
        \/ (b.start < a.start /\ a.end <= b.end)
        \/ a.end <= b.start
        \/ b.end <= a.start

\* the sets of at most m nodes that one tree can hold
RECURSIVE Families(_, _)
Families(R, m) ==
    IF m = 0 THEN {{}}
    ELSE LET P == Families(R, m - 1)
         IN P \cup {G \in {F \cup {r} : F \in P, r \in R} : Laminar(G)}

\* traversal order: a node before the nodes inside it and before the nodes after it
Before(a, b) == a.start < b.start \/ (a.start = b.start /\ a.end > b.end)

PreOrder(S) ==
    CHOOSE f \in [1..Cardinality(S) -> S] :
        \A j, k \in 1..Cardinality(S) : j < k => Before(f[j], f[k])

MakeNode(text, r) ==
    [start |-> r.start, end |-> r.end,
     startLine |-> LineAt(text, r.start), endLine |-> LineAt(text, r.end)]

Asts(text) ==
    {[k \in 1..Cardinality(S) |-> MakeNode(text, PreOrder(S)[k])] :
        S \in Families(NodeRanges(text), MaxNodes)}

\* Array.from(set): the Added-Line Set was filled in diff order, ascending
RECURSIVE Ascending(_)
Ascending(S) ==
    IF S = {} THEN <<>>
    ELSE LET m == CHOOSE x \in S : \A y \in S : x <= y
         IN <<m>> \o Ascending(S \ {m})

Range(seq) == {seq[k] : k \in 1..Len(seq)}

Max(a, b) == IF a > b THEN a ELSE b
Min(a, b) == IF a < b THEN a ELSE b

\* array.slice(from, to), 0-based, to exclusive
Slice(seq, from, to) == SubSeq(seq, Max(from, 0) + 1, Min(to, Len(seq)))

(***************************************************************************)
(* collectImpactedSections (src/src/ast_context.js) and                    *)
(* collectScriptSections (src/unnamed/part_002).  The name of a candidate  *)
(* stands for its node: it is the node's index in traversal order.         *)
(***************************************************************************)
RelevantLines(added, node) ==
    SelectSeq(Ascending(added), LAMBDA l : l >= node.startLine /\ l <= node.endLine)

JsCandidate(k, added) ==
    [name |-> k,
     start_line |-> nodes[k].startLine,
     end_line |-> nodes[k].endLine,
     start_offset |-> nodes[k].start,
     end_offset |-> nodes[k].end,
     added_lines |-> RelevantLines(added, nodes[k]),
     size |-> nodes[k].endLine - nodes[k].startLine + 1]

RECURSIVE CollectFrom(_, _)
CollectFrom(k, added) ==
    IF k > Len(nodes) THEN <<>>
    ELSE IF Len(RelevantLines(added, nodes[k])) = 0 THEN CollectFrom(k + 1, added)
    ELSE <<JsCandidate(k, added)>> \o CollectFrom(k + 1, added)

collectImpactedSections(added) == CollectFrom(1, added)

VueCandidate(k, added) ==
    [name |-> k,
     start_line |-> nodes[k].startLine,
     end_line |-> nodes[k].endLine,
     added_lines |-> RelevantLines(added, nodes[k]),
     size |-> nodes[k].endLine - nodes[k].startLine + 1,
     snippet |-> Substring(code, nodes[k].start, nodes[k].end),
     is_truncated |-> FALSE,
     truncation_reason |-> "none"]

RECURSIVE CollectScriptFrom(_, _)
CollectScriptFrom(k, added) ==
    IF k > Len(nodes) THEN <<>>
    ELSE IF Len(RelevantLines(added, nodes[k])) = 0 THEN CollectScriptFrom(k + 1, added)
    ELSE <<VueCandidate(k, added)>> \o CollectScriptFrom(k + 1, added)

collectScriptSections(added) == CollectScriptFrom(1, added)

(***************************************************************************)
(* Truncation: limitSectionSize (src/src/ast_context.js),                  *)
(* applySectionSizeLimit (src/unnamed/part_002) and the two                *)
(* extractContextAroundLines.  A character outside ASCII is written as its *)
(* code point; it is one character of the text.                            *)
(***************************************************************************)
CONTEXT_RADIUS == 8

\* `\n\n/* ... <7 characters> (<2 characters>${length}<2 characters>) */`
TruncationMarker(length) ==
    <<NL, NL, "/", "*", " ", ".", ".", ".", " ",
      "U+4EE3", "U+7801", "U+8FC7", "U+957F", "U+5DF2", "U+622A", "U+65AD",
      " ", "(", "U+603B", "U+957F">>
        \o NumToStr(length)
        \o <<"U+5B57", "U+7B26", ")", " ", "*", "/">>

\* ' <arrow> <2 characters>' on the added line
AddedMarker == <<" ", "U+2190", " ", "U+65B0", "U+589E">>

WindowSeparator == <<NL, NL, ".", ".", ".", NL, NL>>

\* `${actualLineNum}| ${line}${marker}`
AnnotatedLine(actualLineNum, text, lineNum) ==
    NumToStr(actualLineNum) \o <<"|", " ">> \o text
        \o (IF actualLineNum = lineNum THEN AddedMarker ELSE <<>>)

\* mutant: the character limit cuts one character short
CutToLimit_OneShort(snippet, limit) == Substring(snippet, 0, limit - 1)

\* snippet.substring(0, config.maxSnippetLength)
CutToLimit(snippet, limit) == Substring(snippet, 0, limit)

\* ast_utils.js: the window of one added line, numbered by file line
JsWindow(lines, lineNum, blockStart, blockEnd, radius) ==
    LET contextStart == Max(blockStart, lineNum - radius)
        contextEnd == Min(blockEnd, lineNum + radius)
        contextLines == Slice(lines, contextStart - 1, contextEnd)
    IN Join([idx \in 1..Len(contextLines) |->
                AnnotatedLine(contextStart + idx - 1, contextLines[idx], lineNum)], <<NL>>)

JsExtractContextAroundLines(text, added, blockStart, blockEnd, radius) ==
    Join([k \in 1..Len(added) |->
            JsWindow(Split(text), added[k], blockStart, blockEnd, radius)],
         WindowSeparator)

\* part_002: the window of one added line, cut from the unit's own snippet
VueWindow(lines, lineNum, blockStart, radius) ==
    LET relativeLineNum == lineNum - blockStart + 1
        contextStart == Max(1, relativeLineNum - radius)
        contextEnd == Min(Len(lines), relativeLineNum + radius)
        contextLines == Slice(lines, contextStart - 1, contextEnd)
    IN Join([idx \in 1..Len(contextLines) |->
                AnnotatedLine(blockStart + contextStart - 1 + idx - 1,
                              contextLines[idx], lineNum)], <<NL>>)

VueExtractContextAroundLines(snippet, added, blockStart, blockEnd, radius) ==
    Join([k \in 1..Len(added) |->
            VueWindow(Split(snippet), added[k], blockStart, radius)],
         WindowSeparator)

\* mutant: the line limit is tested before the character limit
limitSectionSize_LineFirst(section) ==
    LET snippet == Substring(code, section.start_offset, section.end_offset)
        base == [name |-> section.name,
                 start_line |-> section.start_line,
                 end_line |-> section.end_line,
                 added_lines |-> section.added_lines]
    IN IF section.size > config.maxBlockSizeLines
       THEN base @@ [snippet |-> JsExtractContextAroundLines(code, section.added_lines,
                                     section.start_line, section.end_line, CONTEXT_RADIUS),
                     is_truncated |-> TRUE,
                     truncation_reason |-> "line_limit"]
       ELSE IF Len(snippet) > config.maxSnippetLength
       THEN base @@ [snippet |-> CutToLimit(snippet, config.maxSnippetLength)
                                     \o TruncationMarker(Len(snippet)),
                     is_truncated |-> TRUE,
                     truncation_reason |-> "char_limit"]
       ELSE base @@ [snippet |-> snippet,
                     is_truncated |-> FALSE,
                     truncation_reason |-> "none"]

limitSectionSize(section) ==
    LET snippet == Substring(code, section.start_offset, section.end_offset)
        base == [name |-> section.name,
                 start_line |-> section.start_line,
                 end_line |-> section.end_line,
                 added_lines |-> section.added_lines]
    IN IF Len(snippet) > config.maxSnippetLength
       THEN base @@ [snippet |-> CutToLimit(snippet, config.maxSnippetLength)
                                     \o TruncationMarker(Len(snippet)),
                     is_truncated |-> TRUE,
                     truncation_reason |-> "char_limit"]
       ELSE IF section.size > config.maxBlockSizeLines
       THEN base @@ [snippet |-> JsExtractContextAroundLines(code, section.added_lines,
                                     section.start_line, section.end_line, CONTEXT_RADIUS),
                     is_truncated |-> TRUE,
                     truncation_reason |-> "line_limit"]
       ELSE base @@ [snippet |-> snippet,
                     is_truncated |-> FALSE,
                     truncation_reason |-> "none"]

applySectionSizeLimit(section) ==
    IF Len(section.snippet) > config.maxSnippetLength
    THEN [section EXCEPT !.snippet = CutToLimit(section.snippet, config.maxSnippetLength)
                                         \o TruncationMarker(Len(section.snippet)),
                         !.is_truncated = TRUE,
                         !.truncation_reason = "char_limit"]
    ELSE IF section.size > config.maxBlockSizeLines
    THEN [section EXCEPT !.snippet = VueExtractContextAroundLines(section.snippet,
                                         section.added_lines, section.start_line,
                                         section.end_line, CONTEXT_RADIUS),
                         !.is_truncated = TRUE,
                         !.truncation_reason = "line_limit"]
    ELSE section

(***************************************************************************)
(* selectSmallestSections: src/src/ast_utils.js, and the Vue version of    *)
(* src/unnamed/part_002, which also applies the size limit.                *)
(***************************************************************************)
\* Array.prototype.sort with (a, b) => a.size - b.size: stable, ascending
RECURSIVE InsertBySize(_, _)
InsertBySize(sorted, s) ==
    IF Len(sorted) = 0 THEN <<s>>
    ELSE IF sorted[Len(sorted)].size <= s.size THEN Append(sorted, s)
    ELSE Append(InsertBySize(SubSeq(sorted, 1, Len(sorted) - 1), s), sorted[Len(sorted)])

RECURSIVE StableSortBySize(_)
StableSortBySize(sections) ==
    IF Len(sections) = 0 THEN <<>>
    ELSE InsertBySize(StableSortBySize(SubSeq(sections, 1, Len(sections) - 1)),
                      sections[Len(sections)])

Reverse(seq) == [k \in 1..Len(seq) |-> seq[Len(seq) + 1 - k]]

\* mutant: (a, b) => b.size - a.size
SortBySize_Descending(sections) == Reverse(StableSortBySize(Reverse(sections)))

\* mutant: the candidates are scanned in discovery order
SortBySize_Unsorted(sections) == sections

\* const sorted = [...sections].sort((a, b) => a.size - b.size)
SortBySize(sections) == StableSortBySize(sections)

\* mutant: sectionLines.length > 1
HasUncovered_TwoLines(sectionLines) == Len(sectionLines) > 1

\* sectionLines.length > 0
HasUncovered(sectionLines) == Len(sectionLines) > 0

\* mutant: the lines of a selected section are not marked
MarkCovered_Nothing(coveredLines, section) == coveredLines

\* section.added_lines.forEach(line => coveredLines.add(line))
MarkCovered(coveredLines, section) == coveredLines \cup Range(section.added_lines)

RECURSIVE SelectLoop(_, _, _, _)
SelectLoop(sorted, k, selected, coveredLines) ==
    IF k > Len(sorted) THEN selected
    ELSE LET section == sorted[k]
             sectionLines == SelectSeq(section.added_lines,
                                       LAMBDA l : l \notin coveredLines)
         IN IF HasUncovered(sectionLines)
            THEN SelectLoop(sorted, k + 1, Append(selected, section),
                            MarkCovered(coveredLines, section))
            ELSE SelectLoop(sorted, k + 1, selected, coveredLines)

selectSmallestSections(sections, added) ==
    IF Len(sections) = 0 THEN <<>>
    ELSE IF Len(sections) = 1 THEN sections
    ELSE SelectLoop(SortBySize(sections), 1, <<>>, {})

VueSortBySize(sections) == StableSortBySize(sections)

RECURSIVE VueSelectLoop(_, _, _, _, _)
VueSelectLoop(sorted, added, k, selected, coveredLines) ==
    IF k > Len(sorted) THEN selected
    ELSE LET section == sorted[k]
             sectionLines == SelectSeq(Ascending(added),
                 LAMBDA l : l >= section.start_line /\ l <= section.end_line)
             hasUncoveredLines == \E n \in 1..Len(sectionLines) :
                                      sectionLines[n] \notin coveredLines
         IN IF hasUncoveredLines
            THEN VueSelectLoop(sorted, added, k + 1,
                               Append(selected, applySectionSizeLimit(section)),
                               coveredLines \cup Range(sectionLines))
            ELSE VueSelectLoop(sorted, added, k + 1, selected, coveredLines)

VueSelectSmallestSections(sections, added) ==
    IF Len(sections) = 0 THEN <<>>
    ELSE IF Len(sections) = 1 THEN <<applySectionSizeLimit(sections[1])>>
    ELSE VueSelectLoop(VueSortBySize(sections), added, 1, <<>>, {})

(***************************************************************************)
(* extractJsAstContext (src/src/ast_context.js), from the traversal on.    *)
(***************************************************************************)
JsCollect ==
    /\ pc = "collect"
    /\ lang = "js"
    /\ allSections' = collectImpactedSections(addedLines)
    /\ pc' = "select"
    /\ UNCHANGED <<restVars, diffVars, addedLines, lang, code, nodes, scriptStartLine, config,
                   selectedSections, result>>

JsSelect ==
    /\ pc = "select"
    /\ lang = "js"
    /\ selectedSections' = selectSmallestSections(allSections, addedLines)
    /\ pc' = "limit"
    /\ UNCHANGED <<restVars, diffVars, addedLines, lang, code, nodes, scriptStartLine, config,
                   allSections, result>>

JsLimit ==
    /\ pc = "limit"
    /\ lang = "js"
    /\ result' = [k \in 1..Len(selectedSections) |-> limitSectionSize(selectedSections[k])]
    /\ pc' = "done"
    /\ UNCHANGED <<restVars, diffVars, addedLines, lang, code, nodes, scriptStartLine, config,
                   allSections, selectedSections>>

(***************************************************************************)
(* extractScriptContext and extractVueAstContext (src/unnamed/part_002).   *)
(***************************************************************************)
\* mutant: the local line is left 0-based
ToLocal_ZeroBased(g, o) == g - o

\* line => line - scriptStartLine + 1
ToLocal(g, o) == g - o + 1

\* mutant: the offset is added without the - 1
ToGlobal_OffByOne(l, o) == l + o

\* l => l + scriptStartLine - 1
ToGlobal(l, o) == l + o - 1

adjustedAddedLines ==
    {ToLocal(g, scriptStartLine) : g \in {h \in addedLines : h >= scriptStartLine}}

\* no added line at or after the region: extractScriptContext returns at once
VueSkip ==
    /\ pc = "collect"
    /\ lang = "vue"
    /\ adjustedAddedLines = {}
    /\ result' = <<>>
    /\ pc' = "merge"
    /\ UNCHANGED <<restVars, diffVars, addedLines, lang, code, nodes, scriptStartLine, config,
                   allSections, selectedSections>>

VueCollect ==
    /\ pc = "collect"
    /\ lang = "vue"
    /\ adjustedAddedLines # {}
    /\ allSections' = collectScriptSections(adjustedAddedLines)
    /\ pc' = "select"
    /\ UNCHANGED <<restVars, diffVars, addedLines, lang, code, nodes, scriptStartLine, config,
                   selectedSections, result>>

VueSelect ==
    /\ pc = "select"
    /\ lang = "vue"
    /\ selectedSections' = VueSelectSmallestSections(allSections, adjustedAddedLines)
    /\ pc' = "remap"
    /\ UNCHANGED <<restVars, diffVars, addedLines, lang, code, nodes, scriptStartLine, config,
                   allSections, result>>

RemapSection(section) ==
    [name |-> section.name,
     start_line |-> ToGlobal(section.start_line, scriptStartLine),
     end_line |-> ToGlobal(section.end_line, scriptStartLine),
     added_lines |-> [k \in 1..Len(section.added_lines) |->
                         ToGlobal(section.added_lines[k], scriptStartLine)],
     snippet |-> section.snippet,
     is_truncated |-> section.is_truncated,
     truncation_reason |-> section.truncation_reason]

\* the Sections extractScriptContext returns
VueRemap ==
    /\ pc = "remap"
    /\ lang = "vue"
    /\ result' = [k \in 1..Len(selectedSections) |-> RemapSection(selectedSections[k])]
    /\ pc' = "merge"
    /\ UNCHANGED <<restVars, diffVars, addedLines, lang, code, nodes, scriptStartLine, config,
                   allSections, selectedSections>>

\* allSections.sort((a, b) => a.start_line - b.start_line): stable, ascending
RECURSIVE InsertByStart(_, _)
InsertByStart(sorted, s) ==
    IF Len(sorted) = 0 THEN <<s>>
    ELSE IF sorted[Len(sorted)].start_line <= s.start_line THEN Append(sorted, s)
    ELSE Append(InsertByStart(SubSeq(sorted, 1, Len(sorted) - 1), s), sorted[Len(sorted)])

RECURSIVE SortByStartLine(_)
SortByStartLine(sections) ==
    IF Len(sections) = 0 THEN <<>>
    ELSE InsertByStart(SortByStartLine(SubSeq(sections, 1, Len(sections) - 1)),
                       sections[Len(sections)])

\* extractVueAstContext: the region's Sections, sorted, are the file's result
VueMerge ==
    /\ pc = "merge"
    /\ lang = "vue"
    /\ result' = SortByStartLine(result)
    /\ pc' = "done"
    /\ UNCHANGED <<restVars, diffVars, addedLines, lang, code, nodes, scriptStartLine, config,
                   allSections, selectedSections>>

(***************************************************************************)
(* One extraction: a parsed text, an Added-Line Set, a configuration.      *)
(***************************************************************************)
IdleDiff ==
    /\ diffText = <<>>
    /\ i = 0
    /\ currentNewLine = -1
    /\ mapping = <<>>

ConfigSet ==
    {[maxSnippetLength |-> MaxSnippetLength, maxBlockSizeLines |-> MaxBlockSizeLines]}

InitAst ==
    /\ IdleGuards
    /\ pc = "collect"
    /\ IdleDiff
    /\ lang \in {"js", "vue"}
    /\ code \in CodeTexts
    /\ nodes \in Asts(code)
    /\ scriptStartLine \in (IF lang = "vue" THEN {1, 2} ELSE {1})
    /\ addedLines \in SUBSET (1..(IF lang = "vue" THEN MaxCodeLines + 1 ELSE MaxCodeLines))
    /\ config \in ConfigSet
    /\ allSections = <<>>
    /\ selectedSections = <<>>
    /\ result = <<>>
    /\ IdleExtract
    /\ IdleHunk
    /\ IdleReview

NextAst ==
    \/ JsCollect
    \/ JsSelect
    \/ JsLimit
    \/ VueSkip
    \/ VueCollect
    \/ VueSelect
    \/ VueRemap
    \/ VueMerge

SpecAst == InitAst /\ [][NextAst]_vars

(***************************************************************************)
(* Claims about the diff line mapper.                                      *)
(***************************************************************************)
\* a '+' line of a hunk, whatever its text
PlusLine(l) == StartsWith(l, <<"+">>)
MinusLine(l) == StartsWith(l, <<"-">>)
SpaceLine(l) == StartsWith(l, <<" ">>)

ValidHeader(l) == IsHunkLine(l) /\ HeaderExec(l).matched

\* the '@@' line that opens the hunk the line at position k lies in (0: none)
HunkOf(k) ==
    IF \E h \in 1..(k - 1) : IsHunkLine(diffLines[h])
    THEN CHOOSE h \in 1..(k - 1) :
             /\ IsHunkLine(diffLines[h])
             /\ \A g \in (h + 1)..(k - 1) : ~IsHunkLine(diffLines[g])
    ELSE 0

\* the positions of the body lines of the hunk opened at position h
HunkBody(h) == {k \in (h + 1)..Len(diffLines) : ~IsHunkLine(diffLines[k]) /\ HunkOf(k) = h}

FileHeaderLine(l) ==
    \/ StartsWith(l, <<"-", "-", "-">>)
    \/ StartsWith(l, <<"+", "+", "+">>)
    \/ StartsWith(l, <<"d", "i", "f", "f", " ", "-", "-", "g", "i", "t">>)
    \/ StartsWith(l, <<"i", "n", "d", "e", "x", " ">>)

\* a diff made of valid hunks: file-header lines, then hunks whose headers match,
\* whose body lines start with '+', '-' or ' ', whose line counts are the
\* header's, and which follow each other in the new file
ValidDiff ==
    /\ \E h \in 1..Len(diffLines) : IsHunkLine(diffLines[h])
    /\ \A k \in 1..Len(diffLines) :
        LET l == diffLines[k]
        IN IF IsHunkLine(l)
           THEN /\ HeaderMatchAt(l, 1).matched
                /\ Cardinality({b \in HunkBody(k) : ~PlusLine(diffLines[b])})
                       = HeaderExec(l).oldLen
                /\ Cardinality({b \in HunkBody(k) : ~MinusLine(diffLines[b])})
                       = HeaderExec(l).newLen
                /\ \A g \in 1..(k - 1) : IsHunkLine(diffLines[g]) =>
                       HeaderExec(diffLines[g]).newStart + HeaderExec(diffLines[g]).newLen
                           <= HeaderExec(l).newStart
           ELSE IF HunkOf(k) = 0
           THEN FileHeaderLine(l)
           ELSE PlusLine(l) \/ MinusLine(l) \/ SpaceLine(l)

\* the new-file number of the '+' line at position k: its hunk's new-start plus
\* the context and '+' lines before it in the hunk
NewFileLineOf(k) ==
    HeaderExec(diffLines[HunkOf(k)]).newStart
        + Cardinality({b \in HunkBody(HunkOf(k)) : b < k /\ ~MinusLine(diffLines[b])})

ExpectedAddedLines ==
    {NewFileLineOf(k) : k \in {b \in 1..Len(diffLines) :
                                   /\ HunkOf(b) # 0
                                   /\ ~IsHunkLine(diffLines[b])
                                   /\ PlusLine(diffLines[b])}}

\* C6: for every diff made of valid hunks, the Added-Line Set is the set of the
\* new-file line numbers of all '+' lines (new-start plus the context and '+'
\* lines before the line in its hunk); '-' lines never advance the counter.
C6_AddedLineSetCorrect ==
    (pc = "parsed" /\ ValidDiff) => addedLines = ExpectedAddedLines

\* C7: every line that begins with '+' (not '+++') and lies after a hunk header
\* has a new-file line number in the mapping, and within one hunk the numbers
\* are strictly increasing in diff order.
C7_AddedLinesNumberedIncreasing ==
    /\ \A k \in 1..i :
        (IsAddedLine(diffLines[k]) /\ \E h \in 1..(k - 1) : ValidHeader(diffLines[h]))
            => \E m \in 1..Len(mapping) : mapping[m][1] = k
    /\ \A m1, m2 \in 1..Len(mapping) :
        (m1 < m2 /\ HunkOf(mapping[m1][1]) = HunkOf(mapping[m2][1]))
            => /\ mapping[m1][1] < mapping[m2][1]
               /\ mapping[m1][2] < mapping[m2][2]

\* two added lines of one hunk with other lines between them have been numbered
C7_Witness ==
    /\ pc = "parsed"
    /\ \E m1, m2 \in 1..Len(mapping) :
        /\ mapping[m1][1] + 1 < mapping[m2][1]
        /\ HunkOf(mapping[m1][1]) = HunkOf(mapping[m2][1])
        /\ ValidHeader(diffLines[HunkOf(mapping[m1][1])])

(***************************************************************************)
(* Claims about the Minimal-Coverage Selector.                             *)
(***************************************************************************)
\* selectSmallestSections has returned (script or component selector)
SelectReturned == pc \in {"limit", "remap"}

LinesOf(sections) == UNION {Range(sections[k].added_lines) : k \in 1..Len(sections)}

IsSelected(candidate) ==
    \E k \in 1..Len(selectedSections) : selectedSections[k].name = candidate.name

\* the smallest size among the candidates that contain the line
MinSizeAround(l) ==
    CHOOSE m \in {allSections[k].size : k \in 1..Len(allSections)} :
        /\ \E k \in 1..Len(allSections) :
               allSections[k].size = m /\ l \in Range(allSections[k].added_lines)
        /\ \A k \in 1..Len(allSections) :
               l \in Range(allSections[k].added_lines) => m <= allSections[k].size

\* C1: the union of the added_lines of the selected candidates equals the
\* union of the added_lines of all candidates, in both selectors and for
\* candidate lists of every length.
C1_CoverageComplete ==
    SelectReturned => LinesOf(selectedSections) = LinesOf(allSections)

\* the covering pass ran on three candidates and dropped one
C1_Witness ==
    /\ SelectReturned
    /\ Len(allSections) = 3
    /\ Len(selectedSections) = 2
    /\ Cardinality(LinesOf(allSections)) >= 2

\* C2: no selected candidate has all its added lines in a strictly smaller
\* selected candidate, and every selected candidate has an added line that no
\* candidate selected before it contains.
C2_Minimality ==
    SelectReturned =>
        \A k \in 1..Len(selectedSections) :
            /\ ~\E j \in 1..Len(selectedSections) :
                   /\ selectedSections[j].size < selectedSections[k].size
                   /\ Range(selectedSections[k].added_lines)
                          \subseteq Range(selectedSections[j].added_lines)
            /\ \E l \in Range(selectedSections[k].added_lines) :
                   \A j \in 1..(k - 1) : l \notin Range(selectedSections[j].added_lines)

\* a larger candidate was selected after a smaller one it shares a line with,
\* and another candidate was dropped
C2_Witness ==
    /\ SelectReturned
    /\ Len(selectedSections) < Len(allSections)
    /\ \E j, k \in 1..Len(selectedSections) :
        /\ j < k
        /\ selectedSections[j].size < selectedSections[k].size
        /\ Range(selectedSections[j].added_lines)
               \cap Range(selectedSections[k].added_lines) # {}

\* C3: for every added line that lies in some candidate, a selected candidate
\* contains the line and has the minimum size over the candidates containing it.
C3_SmallestEnclosingUnit ==
    SelectReturned =>
        \A l \in LinesOf(allSections) :
            \E k \in 1..Len(selectedSections) :
                /\ l \in Range(selectedSections[k].added_lines)
                /\ selectedSections[k].size = MinSizeAround(l)

\* an added line lies in a selected candidate that is larger than its smallest one
C3_Witness ==
    /\ SelectReturned
    /\ \E k \in 1..Len(selectedSections) :
        \E l \in Range(selectedSections[k].added_lines) :
            selectedSections[k].size > MinSizeAround(l)

\* C4 as stated: whenever a strictly smaller candidate contains every added line
\* of a larger candidate, the smaller one is selected and the larger one is not.
C4_SmallerSelectedLargerNot ==
    SelectReturned =>
        \A a, b \in 1..Len(allSections) :
            (/\ allSections[a].size < allSections[b].size
             /\ Range(allSections[b].added_lines) \subseteq Range(allSections[a].added_lines))
                => IsSelected(allSections[a]) /\ ~IsSelected(allSections[b])

\* C4 as amended: whenever a strictly smaller candidate contains every added line
\* of a larger candidate, the larger one is not selected; the smaller one is
\* selected unless all its added lines lie in other selected candidates that are
\* no larger than it.
C4_LargerNeverSelected ==
    SelectReturned =>
        \A a, b \in 1..Len(allSections) :
            (/\ allSections[a].size < allSections[b].size
             /\ Range(allSections[b].added_lines) \subseteq Range(allSections[a].added_lines))
                => /\ ~IsSelected(allSections[b])
                   /\ \/ IsSelected(allSections[a])
                      \/ Range(allSections[a].added_lines) \subseteq
                             LinesOf(SelectSeq(selectedSections,
                                 LAMBDA s : /\ s.size <= allSections[a].size
                                            /\ s.name # allSections[a].name))

\* two added lines inside a unit nested in a larger one: the inner one is selected
C4_Witness ==
    /\ SelectReturned
    /\ \E a, b \in 1..Len(allSections) :
        /\ allSections[a].size < allSections[b].size
        /\ Len(allSections[a].added_lines) = 2
        /\ Range(allSections[b].added_lines) = Range(allSections[a].added_lines)
        /\ IsSelected(allSections[a])
        /\ ~IsSelected(allSections[b])

\* C5: every added line that is present in at least one candidate appears in
\* the added_lines of exactly one selected unit.
C5_ExactlyOneCoverage ==
    SelectReturned =>
        \A l \in LinesOf(allSections) :
            Cardinality({k \in 1..Len(selectedSections) :
                            l \in Range(selectedSections[k].added_lines)}) = 1

\* C25: the units selectSmallestSections returns appear in the relative
\* order in which the candidates were discovered, the pre-order of the
\* traversal, for every candidate list.
C25_SelectorKeepsDiscoveryOrder ==
    SelectReturned =>
        \A j, k \in 1..Len(selectedSections) :
            j < k => selectedSections[j].name < selectedSections[k].name

(***************************************************************************)
(* Claims about the emitted Sections.                                      *)
(***************************************************************************)
\* the extractor has returned its Sections
Emitted == pc = "done" \/ (lang = "vue" /\ pc = "merge")

\* the text of the unit a Section stands for
RawSnippet(section) == SubSeq(code, nodes[section.name].start + 1, nodes[section.name].end)

\* C8: in both extractors, a unit whose raw snippet is longer than
\* maxSnippetLength is emitted with is_truncated, reason 'char_limit', and the
\* first maxSnippetLength characters of the raw snippet followed by the marker.
C8_CharLimitTruncation ==
    Emitted =>
        \A k \in 1..Len(result) :
            Len(RawSnippet(result[k])) > config.maxSnippetLength =>
                /\ result[k].is_truncated
                /\ result[k].truncation_reason = "char_limit"
                /\ result[k].snippet =
                       SubSeq(RawSnippet(result[k]), 1, config.maxSnippetLength)
                           \o TruncationMarker(Len(RawSnippet(result[k])))
                /\ Len(result[k].snippet) =
                       config.maxSnippetLength
                           + Len(TruncationMarker(Len(RawSnippet(result[k]))))

\* a unit over both limits was emitted by each extractor's path
C8_Witness ==
    /\ Emitted
    /\ \E k \in 1..Len(result) :
        /\ Len(RawSnippet(result[k])) > config.maxSnippetLength
        /\ result[k].end_line - result[k].start_line + 1 > config.maxBlockSizeLines
        /\ result[k].truncation_reason = "char_limit"

\* C9: every emitted Section has a snippet of at most maxSnippetLength plus the
\* length of the truncation marker, whatever its truncation reason.
C9_BoundedSnippets ==
    Emitted =>
        \A k \in 1..Len(result) :
            Len(result[k].snippet) <=
                config.maxSnippetLength + Len(TruncationMarker(Len(RawSnippet(result[k]))))

\* C10: every Section extractScriptContext returns has added_lines that are
\* members of the caller's Added-Line Set, global start and end lines
\* (local + o - 1), and global -> local -> global is the identity from o on.
C10_RemapRoundTrip ==
    (lang = "vue" /\ pc = "merge") =>
        /\ \A k \in 1..Len(result) :
            /\ Range(result[k].added_lines) \subseteq addedLines
            /\ result[k].start_line = nodes[result[k].name].startLine + scriptStartLine - 1
            /\ result[k].end_line = nodes[result[k].name].endLine + scriptStartLine - 1
            /\ \A l \in Range(result[k].added_lines) :
                   result[k].start_line <= l /\ l <= result[k].end_line
        /\ \A g \in addedLines :
               g >= scriptStartLine =>
                   ToGlobal(ToLocal(g, scriptStartLine), scriptStartLine) = g

\* a region that starts below line 1, an added line above it, a Section returned
C10_Witness ==
    /\ lang = "vue"
    /\ pc = "merge"
    /\ scriptStartLine > 1
    /\ \E g \in addedLines : g < scriptStartLine
    /\ Len(result) >= 2

\* end_line - start_line + 1 of the unit a Section stands for
UnitSize(section) == nodes[section.name].endLine - nodes[section.name].startLine + 1

\* C23: every emitted Section has truncation_reason 'char_limit' exactly
\* when its raw snippet is longer than maxSnippetLength (also when its line
\* count is over the line limit too), 'line_limit' exactly when the raw
\* snippet is within the character limit and its size is over
\* maxBlockSizeLines, and otherwise carries the raw snippet unmodified with
\* no truncation flag.
C23_TruncationPolicyOrder ==
    Emitted =>
        \A k \in 1..Len(result) :
            LET raw == RawSnippet(result[k])
                reason == result[k].truncation_reason
            IN /\ reason = "char_limit" <=> Len(raw) > config.maxSnippetLength
               /\ reason = "line_limit" <=>
                      (/\ Len(raw) <= config.maxSnippetLength
                       /\ UnitSize(result[k]) > config.maxBlockSizeLines)
               /\ reason \notin {"char_limit", "line_limit"} =>
                      /\ reason = "none"
                      /\ ~result[k].is_truncated
                      /\ result[k].snippet = raw
               /\ result[k].is_truncated <=> reason # "none"

\* one result with a unit over both limits, a unit over the line limit only
\* and a unit within both
C23_Witness ==
    /\ pc = "done"
    /\ \E a, b, c \in 1..Len(result) :
        /\ result[a].truncation_reason = "char_limit"
        /\ UnitSize(result[a]) > config.maxBlockSizeLines
        /\ result[b].truncation_reason = "line_limit"
        /\ result[c].truncation_reason = "none"

\* the lines of a windowed snippet that carry a number: `${n}| ...`
IsAnnotated(l) == DigitRun(l, 1) > 0 /\ HasAt(l, DigitRun(l, 1) + 1, <<"|", " ">>)
AnnotatedNumber(l) == ParseInt(SubSeq(l, 1, DigitRun(l, 1)))
HasAddedMarker(l) == HasAt(l, Len(l) - Len(AddedMarker) + 1, AddedMarker)
WindowLines(snippet) == {l \in Range(Split(snippet)) : IsAnnotated(l)}

Distance(a, b) == IF a > b THEN a - b ELSE b - a

\* C24: in every Section tagged 'line_limit', of the script and of the
\* component extractor, each snippet line is annotated with its line number
\* in the file, the coordinates of the Section's start_line, end_line and
\* added_lines: every annotated number lies within [start_line, end_line]
\* and within 8 lines of an added line of the Section, and the added-line
\* marker is on the lines whose number is the window's added line.
C24_WindowAbsoluteLineNumbers ==
    Emitted =>
        \A k \in 1..Len(result) :
            result[k].truncation_reason = "line_limit" =>
                /\ \A l \in WindowLines(result[k].snippet) :
                       /\ AnnotatedNumber(l) >= result[k].start_line
                       /\ AnnotatedNumber(l) <= result[k].end_line
                       /\ \E a \in Range(result[k].added_lines) :
                              Distance(AnnotatedNumber(l), a) <= CONTEXT_RADIUS
                       /\ HasAddedMarker(l) =>
                              AnnotatedNumber(l) \in Range(result[k].added_lines)
                /\ \A a \in Range(result[k].added_lines) :
                       \E l \in WindowLines(result[k].snippet) :
                           AnnotatedNumber(l) = a /\ HasAddedMarker(l)

(***************************************************************************)
(* Claims about the forward remapping of the component extractor.          *)
(***************************************************************************)
\* C11: for a script region starting at file line o, the local added-line
\* set handed to the candidate collection is exactly the set of l >= 1 with
\* l + o - 1 in the Added-Line Set: global lines before o are dropped, no
\* local line is below 1, and the candidates collected from it carry only
\* such lines (region at line 5, global line 20: local line 16).
C11_ForwardRemapping ==
    lang = "vue" =>
        /\ adjustedAddedLines =
               {l \in 1..(MaxCodeLines + 1) : l + scriptStartLine - 1 \in addedLines}
        /\ \A l \in adjustedAddedLines : l >= 1
        /\ \A g \in addedLines :
               g < scriptStartLine => ToLocal(g, scriptStartLine) \notin adjustedAddedLines
        /\ pc = "select" =>
               \A k \in 1..Len(allSections) :
                   \A l \in Range(allSections[k].added_lines) :
                       /\ l >= 1
                       /\ l + scriptStartLine - 1 \in addedLines
        /\ ToLocal(20, 5) = 16

\* a region starting at line 2, an added line before it (dropped) and one
\* inside a candidate of the region
C11_Witness ==
    /\ lang = "vue"
    /\ pc = "select"
    /\ scriptStartLine = 2
    /\ 1 \in addedLines
    /\ \E k \in 1..Len(allSections) :
           \E l \in Range(allSections[k].added_lines) : l + 1 \in addedLines
    /\ Cardinality(adjustedAddedLines) < Cardinality(addedLines)

(***************************************************************************)
(* extractAstContext (src/src/ast_context.js) with its two extractors,     *)
(* from the test of the file path to the returned result.  Each step       *)
(* between two awaits is one action.  What the environment answers (is the *)
(* configuration there, is the file there, does the parser throw) is       *)
(* learnt when it is first asked and stays the same for the next call.     *)
(***************************************************************************)
EndsWith(s, suffix) ==
    /\ Len(s) >= Len(suffix)
    /\ SubSeq(s, Len(s) - Len(suffix) + 1, Len(s)) = suffix

\* /\.(js|jsx|ts|tsx)$/.test(filePath)
IsScriptPath(path) ==
    \/ EndsWith(path, <<".", "j", "s">>)
    \/ EndsWith(path, <<".", "j", "s", "x">>)
    \/ EndsWith(path, <<".", "t", "s">>)
    \/ EndsWith(path, <<".", "t", "s", "x">>)

\* /\.vue$/.test(filePath)
IsVuePath(path) == EndsWith(path, <<".", "v", "u", "e">>)

\* mutant: every path that is not a component file goes to the script extractor
Kind_ScriptByDefault(path) ==
    IF IsVuePath(path) THEN "vue" ELSE "js"

\* the branch extractAstContext takes
Kind(path) ==
    IF IsScriptPath(path) THEN "js"
    ELSE IF IsVuePath(path) THEN "vue"
    ELSE "other"

PathSet ==
    {<<"a", ".", "j", "s">>, <<"a", ".", "j", "s", "x">>, <<"a", ".", "t", "s">>,
     <<"a", ".", "t", "s", "x">>, <<"a", ".", "v", "u", "e">>,
     <<"a", ".", "p", "n", "g">>, <<"a", "j", "s">>, <<"a", ".", "j", "s", ".", "m">>}

\* the answers of the environment
Known(fact) == \E p \in world : p[1] = fact
Fact(fact) == (CHOOSE p \in world : p[1] = fact)[2]
Choice(fact, options) == IF Known(fact) THEN {Fact(fact)} ELSE options
Learn(fact, v) == world \cup {<<fact, v>>}

\* error tags: a name, or a name and the message of the exception
Tag(name, message) == <<name, message>>

ConfigMessage == "missing environment variable"
ParseMessage == "unexpected token"
TraverseMessage == "cannot traverse"
LateMessage == "cannot read property"

\* loadRuntimeConfig().astConfig when the environment is complete
LoadedAstConfig == CHOOSE c \in ConfigSet : TRUE

\* mutant: a cached configuration comes back with another line limit
getAstConfig_Stale(cache, loaded) ==
    IF cache # <<>>
    THEN [cache[1] EXCEPT !.maxBlockSizeLines = cache[1].maxBlockSizeLines + MaxCodeLines]
    ELSE loaded

\* getAstConfig: the cache if it is filled, else the loaded bundle
getAstConfig(cache, loaded) ==
    IF cache # <<>> THEN cache[1] ELSE loaded

\* the text of the file: the source itself, or the component file around
\* its script region
FileText ==
    IF lang = "vue"
    THEN [k \in 1..(scriptStartLine - 1) |-> NL]
         \o <<"<", "s", "c", "r", "i", "p", "t", ">">> \o code
         \o <<"<", "/", "s", "c", "r", "i", "p", "t", ">">>
    ELSE code

\* readFileSafe: the text, or null (here <<>>) when reading fails
readFileSafe(answer) == IF answer = "ok" THEN <<FileText>> ELSE <<>>

\* !code: null or the empty string
Falsy(read) == read = <<>> \/ read[1] = <<>>

\* if (!code)
NotReadable(read) == Falsy(read)

callVars == <<filePath, code, nodes, scriptStartLine, addedLines, calls, previous>>

NoAstConfig == [maxSnippetLength |-> 0, maxBlockSizeLines |-> 0]

\* lines 250-261: the extractor is chosen by the extension of the path
Dispatch ==
    /\ pc = "dispatch"
    /\ lang' = Kind(filePath)
    /\ IF lang' = "other"
       THEN /\ result' = <<>>
            /\ errors' = << <<"unsupported_file_type">> >>
            /\ pc' = "done"
       ELSE /\ pc' = "config"
            /\ UNCHANGED <<result, errors>>
    /\ UNCHANGED <<guardVars, diffVars, hunkVars, reviewVars, callVars, config, allSections,
                   selectedSections, world, astConfig, effects, thrown, returned>>

\* const config = getAstConfig(): first statement of both extractors
GetConfig ==
    /\ pc = "config"
    /\ IF astConfig # <<>>
       THEN /\ config' = getAstConfig(astConfig, LoadedAstConfig)
            /\ pc' = IF lang = "js" THEN "read" ELSE "compiler"
            /\ UNCHANGED <<world, astConfig, effects, thrown>>
       ELSE \E v \in Choice("config", {"ok", "missing"}) :
               /\ world' = Learn("config", v)
               /\ effects' = effects \cup {"config"}
               /\ IF v = "ok"
                  THEN /\ config' = getAstConfig(astConfig, LoadedAstConfig)
                       /\ astConfig' = <<config'>>
                       /\ pc' = IF lang = "js" THEN "read" ELSE "compiler"
                       /\ UNCHANGED thrown
                  ELSE /\ thrown' = <<[at |-> "config", message |-> ConfigMessage]>>
                       /\ pc' = "thrown"
                       /\ UNCHANGED <<config, astConfig>>
    /\ UNCHANGED <<guardVars, diffVars, hunkVars, reviewVars, callVars, lang, allSections,
                   selectedSections, result, errors, returned>>

\* loadVueSfcCompiler: null when @vue/compiler-sfc is not installed
LoadCompiler ==
    /\ pc = "compiler"
    /\ \E v \in Choice("compiler", {"ok", "missing"}) :
          /\ world' = Learn("compiler", v)
          /\ IF v = "ok"
             THEN pc' = "read" /\ UNCHANGED errors
             ELSE /\ errors' = Append(errors, <<"vue_sfc_compiler_not_installed">>)
                  /\ pc' = "done"
    /\ UNCHANGED <<guardVars, diffVars, hunkVars, reviewVars, callVars, lang, config, allSections,
                   selectedSections, result, astConfig, effects, thrown, returned>>

\* const code = await readFileSafe(filePath, projectRoot); if (!code) ...
ReadFile ==
    /\ pc = "read"
    /\ \E v \in Choice("file", {"ok", "missing"}) :
          /\ world' = Learn("file", v)
          /\ effects' = effects \cup {"read"}
          /\ IF NotReadable(readFileSafe(v))
             THEN /\ errors' = Append(errors, <<"file_not_readable">>)
                  /\ pc' = "done"
             ELSE pc' = "parse" /\ UNCHANGED errors
    /\ UNCHANGED <<guardVars, diffVars, hunkVars, reviewVars, callVars, lang, config, allSections,
                   selectedSections, result, astConfig, thrown, returned>>

\* ast = await withTimeout(parseCode(code), ...): an AST or parse_error
ParseJs ==
    /\ pc = "parse"
    /\ lang = "js"
    /\ \E v \in Choice("parse", {"ok", "throws"}) :
          /\ world' = Learn("parse", v)
          /\ IF v = "ok"
             THEN pc' = "analyse" /\ UNCHANGED errors
             ELSE /\ errors' = Append(errors, Tag("parse_error", ParseMessage))
                  /\ pc' = "done"
    /\ UNCHANGED <<guardVars, diffVars, hunkVars, reviewVars, callVars, lang, config, allSections,
                   selectedSections, result, astConfig, effects, thrown, returned>>

\* lines 53-70, which run without an await: collect, select, limit
AnalyseJs ==
    /\ pc = "analyse"
    /\ lang = "js"
    /\ "ok" \in Choice("analysis", {"ok", "traverse_throws", "late_throws"})
    /\ world' = Learn("analysis", "ok")
    /\ allSections' = collectImpactedSections(addedLines)
    /\ selectedSections' = selectSmallestSections(allSections', addedLines)
    /\ result' = [k \in 1..Len(selectedSections') |-> limitSectionSize(selectedSections'[k])]
    /\ pc' = "done"
    /\ UNCHANGED <<guardVars, diffVars, hunkVars, reviewVars, callVars, lang, config, astConfig,
                   effects, errors, thrown, returned>>

\* lines 57-60: the traversal throws something other than the depth limit
TraverseFailsJs ==
    /\ pc = "analyse"
    /\ lang = "js"
    /\ "traverse_throws" \in Choice("analysis", {"ok", "traverse_throws", "late_throws"})
    /\ world' = Learn("analysis", "traverse_throws")
    /\ errors' = Append(errors, Tag("traverse_error", TraverseMessage))
    /\ pc' = "done"
    /\ UNCHANGED <<guardVars, diffVars, hunkVars, reviewVars, callVars, lang, config, allSections,
                   selectedSections, result, astConfig, effects, thrown, returned>>

\* an exception in lines 62-68, outside the extractor's own try blocks
AnalyseThrowsJs ==
    /\ pc = "analyse"
    /\ lang = "js"
    /\ "late_throws" \in Choice("analysis", {"ok", "traverse_throws", "late_throws"})
    /\ world' = Learn("analysis", "late_throws")
    /\ allSections' = collectImpactedSections(addedLines)
    /\ selectedSections' = selectSmallestSections(allSections', addedLines)
    /\ thrown' = <<[at |-> "analyse", message |-> LateMessage]>>
    /\ pc' = "thrown"
    /\ UNCHANGED <<guardVars, diffVars, hunkVars, reviewVars, callVars, lang, config, result,
                   astConfig, effects, errors, returned>>

\* parsed = await withTimeout(parsePromise, ...): a descriptor, a descriptor
\* with recorded errors, or sfc_parse_error
ParseVue ==
    /\ pc = "parse"
    /\ lang = "vue"
    /\ \E v \in Choice("parse", {"ok", "errors", "throws"}) :
          /\ world' = Learn("parse", v)
          /\ IF v = "ok"
             THEN pc' = "analyse" /\ UNCHANGED errors
             ELSE IF v = "errors"
             THEN /\ errors' = Append(errors, Tag("sfc_parse_errors", "1"))
                  /\ pc' = "analyse"
             ELSE /\ errors' = Append(errors, Tag("sfc_parse_error", ParseMessage))
                  /\ pc' = "done"
    /\ UNCHANGED <<guardVars, diffVars, hunkVars, reviewVars, callVars, lang, config, allSections,
                   selectedSections, result, astConfig, effects, thrown, returned>>

VueOutcomes ==
    {"ok", "script_parse_throws", "traverse_throws", "script_throws", "late_throws"}

\* the tag a failure of the script region is recorded under
ScriptTag(v) ==
    IF v = "script_parse_throws" THEN "script_parse_error"
    ELSE IF v = "traverse_throws" THEN "script_traverse_error"
    ELSE "script_analysis_error"

\* lines 398-448, which run without an await: the script region, if it has
\* content, goes through extractScriptContext; the Sections are sorted
AnalyseVue ==
    /\ pc = "analyse"
    /\ lang = "vue"
    /\ "ok" \in Choice("analysis", VueOutcomes)
    /\ world' = Learn("analysis", "ok")
    /\ allSections' = IF code = <<>> \/ adjustedAddedLines = {} THEN <<>>
                      ELSE collectScriptSections(adjustedAddedLines)
    /\ selectedSections' = VueSelectSmallestSections(allSections', adjustedAddedLines)
    /\ result' = SortByStartLine([k \in 1..Len(selectedSections') |->
                                     RemapSection(selectedSections'[k])])
    /\ pc' = "done"
    /\ UNCHANGED <<guardVars, diffVars, hunkVars, reviewVars, callVars, lang, config, astConfig,
                   effects, errors, thrown, returned>>

\* the script region fails: in Babel (script_parse_error), in the traversal
\* (script_traverse_error), elsewhere in extractScriptContext
\* (script_analysis_error); the file's result has the tag and no Section
ScriptFailsVue ==
    /\ pc = "analyse"
    /\ lang = "vue"
    /\ code # <<>>
    /\ \E v \in Choice("analysis", VueOutcomes) \cap
                   {"script_parse_throws", "traverse_throws", "script_throws"} :
          /\ v = "traverse_throws" => adjustedAddedLines # {}
          /\ world' = Learn("analysis", v)
          /\ errors' = Append(errors, Tag(ScriptTag(v), TraverseMessage))
    /\ result' = SortByStartLine(<<>>)
    /\ pc' = "done"
    /\ UNCHANGED <<guardVars, diffVars, hunkVars, reviewVars, callVars, lang, config, allSections,
                   selectedSections, astConfig, effects, thrown, returned>>

\* an exception in lines 398-448 outside the two try blocks
AnalyseThrowsVue ==
    /\ pc = "analyse"
    /\ lang = "vue"
    /\ "late_throws" \in Choice("analysis", VueOutcomes)
    /\ world' = Learn("analysis", "late_throws")
    /\ thrown' = <<[at |-> "analyse", message |-> LateMessage]>>
    /\ pc' = "thrown"
    /\ UNCHANGED <<guardVars, diffVars, hunkVars, reviewVars, callVars, lang, config, allSections,
                   selectedSections, result, astConfig, effects, errors, returned>>

\* mutant: the configuration is fetched before the try block is entered
InsideTry_AfterConfig(at) == at \in {"compiler", "read", "parse", "analyse"}

\* lines 250-262: both extractor calls are inside the try block
InsideTry(at) == at \in {"config", "compiler", "read", "parse", "analyse"}

\* lines 262-269: the catch of extractAstContext
Catch ==
    /\ pc = "thrown"
    /\ IF InsideTry(thrown[1].at)
       THEN /\ result' = <<>>
            /\ errors' = <<Tag("unexpected_error", thrown[1].message)>>
            /\ pc' = "done"
       ELSE /\ pc' = "rejected"
            /\ UNCHANGED <<result, errors>>
    /\ UNCHANGED <<guardVars, diffVars, hunkVars, reviewVars, callVars, lang, config, allSections,
                   selectedSections, world, astConfig, effects, thrown, returned>>

\* Date.now() - startTime
ElapsedSet == {0, 1}

\* lines 271-274
Return ==
    /\ pc = "done"
    /\ \E t \in ElapsedSet :
          returned' = <<[impacted_sections |-> result, errors |-> errors,
                         parse_time_ms |-> t]>>
    /\ pc' = "returned"
    /\ UNCHANGED <<guardVars, diffVars, hunkVars, reviewVars, callVars, lang, config, allSections,
                   selectedSections, result, world, astConfig, effects, errors, thrown>>

\* the caller runs extractAstContext again on the same arguments; only the
\* module-level cache and the environment are carried over
CallAgain ==
    /\ pc = "returned"
    /\ calls = 1
    /\ calls' = 2
    /\ previous' = returned
    /\ pc' = "dispatch"
    /\ lang' = "none"
    /\ config' = NoAstConfig
    /\ allSections' = <<>>
    /\ selectedSections' = <<>>
    /\ result' = <<>>
    /\ effects' = {}
    /\ errors' = <<>>
    /\ thrown' = <<>>
    /\ returned' = <<>>
    /\ UNCHANGED <<guardVars, diffVars, hunkVars, reviewVars, filePath, code, nodes,
                   scriptStartLine, addedLines, world, astConfig>>

\* the inputs: one line and one node fewer than SpecAst, and the empty file
ExtractTexts == {<<>>} \cup {t \in CodeTexts : CountNL(t) + 1 < MaxCodeLines}
ExtractAsts(text) == {a \in Asts(text) : Len(a) < MaxNodes}

InitExtract ==
    /\ IdleGuards
    /\ pc = "dispatch"
    /\ IdleDiff
    /\ IdleHunk
    /\ IdleReview
    /\ filePath \in PathSet
    /\ lang = "none"
    /\ code \in ExtractTexts
    /\ nodes \in (IF Kind(filePath) = "other" THEN {<<>>} ELSE ExtractAsts(code))
    /\ scriptStartLine \in (IF Kind(filePath) = "vue" THEN {1, 2} ELSE {1})
    /\ addedLines \in SUBSET (1..(IF Kind(filePath) = "vue" THEN MaxCodeLines
                                  ELSE MaxCodeLines - 1))
    /\ config = NoAstConfig
    /\ allSections = <<>>
    /\ selectedSections = <<>>
    /\ result = <<>>
    /\ world = {}
    /\ astConfig = <<>>
    /\ effects = {}
    /\ errors = <<>>
    /\ thrown = <<>>
    /\ returned = <<>>
    /\ calls = 1
    /\ previous = <<>>

NextExtract ==
    \/ Dispatch
    \/ GetConfig
    \/ LoadCompiler
    \/ ReadFile
    \/ ParseJs
    \/ AnalyseJs
    \/ TraverseFailsJs
    \/ AnalyseThrowsJs
    \/ ParseVue
    \/ AnalyseVue
    \/ ScriptFailsVue
    \/ AnalyseThrowsVue
    \/ Catch
    \/ Return
    \/ CallAgain

SpecExtract == InitExtract /\ [][NextExtract]_vars

(***************************************************************************)
(* Claims about the dispatch layer and the failures of the extractors.     *)
(***************************************************************************)
ConfigMissing == Known("config") /\ Fact("config") = "missing"

\* C12: extractAstContext never throws: whatever exception is raised inside
\* the script or the component extractor, the call returns a result with an
\* impacted_sections list, an errors list and parse_time_ms; when the
\* exception reached the dispatch layer, the sections are empty and errors
\* is exactly one 'unexpected_error: <message>' tag.
C12_DispatchNeverRaises ==
    /\ pc # "rejected"
    /\ pc = "returned" =>
          /\ Len(returned) = 1
          /\ DOMAIN returned[1] = {"impacted_sections", "errors", "parse_time_ms"}
          /\ returned[1].parse_time_ms \in ElapsedSet
          /\ thrown # <<>> =>
                /\ returned[1].impacted_sections = <<>>
                /\ returned[1].errors = << <<"unexpected_error", thrown[1].message>> >>

\* an exception after the selection had produced Sections: they are dropped
C12_Witness ==
    /\ pc = "returned"
    /\ thrown # <<>>
    /\ thrown[1].at = "analyse"
    /\ selectedSections # <<>>
    /\ returned[1].impacted_sections = <<>>
    /\ returned[1].errors = << <<"unexpected_error", LateMessage>> >>

SupportedExtensions ==
    {<<".", "j", "s">>, <<".", "j", "s", "x">>, <<".", "t", "s">>,
     <<".", "t", "s", "x">>, <<".", "v", "u", "e">>}

Unsupported(path) == \A ext \in SupportedExtensions : ~EndsWith(path, ext)

\* C13: for a path whose extension is none of .js, .jsx, .ts, .tsx, .vue the
\* call returns empty impacted_sections and errors exactly
\* ['unsupported_file_type'], without throwing, without reading the file
\* and without loading the AST configuration.
C13_UnsupportedFileType ==
    (Unsupported(filePath) /\ pc # "dispatch") =>
        /\ pc \in {"done", "returned"}
        /\ result = <<>>
        /\ errors = << <<"unsupported_file_type">> >>
        /\ thrown = <<>>
        /\ effects = {}
        /\ astConfig = <<>>
        /\ world = {}
        /\ pc = "returned" =>
              /\ returned[1].impacted_sections = <<>>
              /\ returned[1].errors = << <<"unsupported_file_type">> >>

\* a .png path, returned for the second time
C13_Witness ==
    /\ filePath = <<"a", ".", "p", "n", "g">>
    /\ pc = "returned"
    /\ calls = 2
    /\ returned[1].errors = << <<"unsupported_file_type">> >>

\* C14: when the AST configuration cannot be loaded, extractAstContext does
\* not return an ordinary per-file result whose errors list carries a tag.
C14_MissingConfigIsHardFailure ==
    ConfigMissing => ~(pc = "returned" /\ Len(returned[1].errors) > 0)

NoFailureAsked ==
    /\ Known("config") /\ Fact("config") = "ok"
    /\ Known("file") /\ Fact("file") = "ok"
    /\ Known("compiler") => Fact("compiler") = "ok"
    /\ Known("parse") => Fact("parse") = "ok"
    /\ Known("analysis") => Fact("analysis") = "ok"

\* no target node of the file contains an added line (file coordinates)
NoCandidateHasAddedLine ==
    \A k \in 1..Len(nodes) :
        \A g \in addedLines :
            ~(/\ g >= nodes[k].startLine + scriptStartLine - 1
              /\ g <= nodes[k].endLine + scriptStartLine - 1)

\* C15: for every readable source file, the one with no text included, in
\* which no candidate unit contains an added line, extraction returns an
\* empty Section list and an empty error list.
C15_NoCandidateEmptyResult ==
    (pc = "returned" /\ lang \in {"js", "vue"} /\ NoFailureAsked
     /\ NoCandidateHasAddedLine) =>
        /\ returned[1].impacted_sections = <<>>
        /\ returned[1].errors = <<>>

ScriptTags == {"script_parse_error", "script_traverse_error", "script_analysis_error"}

\* C28: a script region for which no added line is at or after its start
\* line (the remapped set is empty) is skipped: it adds no Section and no
\* error tag to the component file's result, whatever its text is, a text
\* that fails to parse included.
C28_RegionSkip ==
    (pc = "returned" /\ lang = "vue" /\ Known("analysis") /\ adjustedAddedLines = {}) =>
        /\ returned[1].impacted_sections = <<>>
        /\ \A k \in 1..Len(returned[1].errors) : returned[1].errors[k][1] \notin ScriptTags

(***************************************************************************)
(* Claims about the order of the returned Sections.                        *)
(***************************************************************************)
\* C17: the Section list of every Extraction Result, of a script file as of
\* a component file, is ordered by ascending start_line.
C17_ResultOrdered ==
    pc = "done" =>
        \A j, k \in 1..Len(result) : j < k => result[j].start_line <= result[k].start_line

(***************************************************************************)
(* reviewFiles and reviewSingleFile (src/src/review_engine.js).  The       *)
(* limiter of p-limit keeps a queue of the reviews and a count of the      *)
(* active ones; a review is suspended at its two awaits, the AST           *)
(* extraction and the AI call.  The state starts after files.map has       *)
(* handed every review to the limiter.                                     *)
(***************************************************************************)
MaxFiles == 2
MaxParallel == 2

ReviewPaths == {"a.js", "b.vue"}

\* what the awaited extractAstContext gives a review: Sections, a result
\* with an error tag, or (the code around it) an exception
AstOutcomes == {"ok", "tagged", "throws"}

\* what the AI call gives: no finding, findings, an exception, or text
\* extractJson cannot parse
AiOutcomes == {"pass", "issues", "throws", "bad_json"}

\* the result object of reviewSingleFile, lines 52-96
ReviewResult(path, ai) ==
    IF ai = "bad_json"
    THEN [file_path |-> path, status |-> "ERROR", issues |-> 1, type |-> "parse_error"]
    ELSE IF ai = "throws"
    THEN [file_path |-> path, status |-> "ERROR", issues |-> 1, type |-> "review_failed"]
    ELSE IF ai = "issues"
    THEN [file_path |-> path, status |-> "WARNING", issues |-> 1, type |-> "review"]
    ELSE [file_path |-> path, status |-> "PASS", issues |-> 0, type |-> "review"]

\* the result object of the catch in reviewFiles, lines 128-145
FailedResult(path) ==
    [file_path |-> path, status |-> "ERROR", issues |-> 1, type |-> "review_failed"]

\* mutant: one review more than the limit may be active
HasFreeSlot_OneMore(active, limit) == active <= limit

\* p-limit: activeCount < concurrency
HasFreeSlot(active, limit) == active < limit

\* p-limit starts the review at the head of the queue when a slot is free;
\* the review runs up to its first await (extractAstContext)
StartReview ==
    /\ pc = "reviewing"
    /\ queue # <<>>
    /\ HasFreeSlot(activeCount, maxParallel)
    /\ task' = [task EXCEPT ![Head(queue)].st = "ast"]
    /\ queue' = Tail(queue)
    /\ activeCount' = activeCount + 1
    /\ UNCHANGED <<guardVars, diffVars, addedLines, astVars, extractVars, hunkVars, pc, files,
                   maxParallel, results, completed, reviews>>

\* extractAstContext returns to the review; it builds the prompt and awaits
\* the AI call.  An exception outside the try of reviewSingleFile goes to
\* the catch of reviewFiles, which resolves the review with an ERROR result
AstReturns(k) ==
    /\ pc = "reviewing"
    /\ task[k].st = "ast"
    /\ \E a \in AstOutcomes :
          IF a = "throws"
          THEN /\ task' = [task EXCEPT ![k].st = "resolved", ![k].ast = a]
               /\ results' = [results EXCEPT ![k] =
                                 <<[path |-> files[k], result |-> FailedResult(files[k])]>>]
               /\ completed' = Append(completed, k)
          ELSE /\ task' = [task EXCEPT ![k].st = "ai", ![k].ast = a]
               /\ UNCHANGED <<results, completed>>
    /\ UNCHANGED <<guardVars, diffVars, addedLines, astVars, extractVars, hunkVars, pc, files,
                   maxParallel, queue, activeCount, reviews>>

\* the AI call settles; the review returns its result object
AiReturns(k) ==
    /\ pc = "reviewing"
    /\ task[k].st = "ai"
    /\ \E r \in AiOutcomes :
          /\ task' = [task EXCEPT ![k].st = "resolved", ![k].ai = r]
          /\ results' = [results EXCEPT ![k] =
                            <<[path |-> files[k], result |-> ReviewResult(files[k], r)]>>]
    /\ completed' = Append(completed, k)
    /\ UNCHANGED <<guardVars, diffVars, addedLines, astVars, extractVars, hunkVars, pc, files,
                   maxParallel, queue, activeCount, reviews>>

\* p-limit, after the review has settled: next() gives the slot back; this
\* may also run after reviewFiles has returned
ReleaseSlot(k) ==
    /\ pc \in {"reviewing", "reviewed"}
    /\ task[k].st = "resolved"
    /\ task' = [task EXCEPT ![k].st = "released"]
    /\ activeCount' = activeCount - 1
    /\ UNCHANGED <<guardVars, diffVars, addedLines, astVars, extractVars, hunkVars, pc, files,
                   maxParallel, queue, results, completed, reviews>>

\* mutant: the results are merged in the order the reviews finished
MergeOrder_Completion(n, finished) == finished

\* Promise.all keeps the order of the input list
MergeOrder(n, finished) == [k \in 1..n |-> k]

\* Map.set / reviews[path] = result: a later entry replaces an earlier one
MapSet(m, key, value) == {e \in m : e[1] # key} \cup {<<key, value>>}

\* results.forEach(({ path, result }) => { reviews[path] = result })
RECURSIVE MergeFrom(_, _, _)
MergeFrom(order, k, acc) ==
    IF k > Len(order) THEN acc
    ELSE MergeFrom(order, k + 1,
                   MapSet(acc, results[order[k]][1].path, results[order[k]][1].result))

\* lines 150-159: all reviews have settled; the map is built and returned
MergeResults ==
    /\ pc = "reviewing"
    /\ \A k \in 1..Len(files) : task[k].st \in {"resolved", "released"}
    /\ reviews' = MergeFrom(MergeOrder(Len(files), completed), 1, {})
    /\ pc' = "reviewed"
    /\ UNCHANGED <<guardVars, diffVars, addedLines, astVars, extractVars, hunkVars, files,
                   maxParallel, task, queue, activeCount, results, completed>>

InitReview ==
    /\ IdleGuards
    /\ pc = "reviewing"
    /\ IdleDiff
    /\ addedLines = {}
    /\ IdleAst
    /\ IdleExtract
    /\ IdleHunk
    /\ files \in UNION {[1..n -> ReviewPaths] : n \in 0..MaxFiles}
    /\ maxParallel \in 1..MaxParallel
    /\ task = [k \in 1..Len(files) |-> [st |-> "queued", ast |-> "none", ai |-> "none"]]
    /\ queue = [k \in 1..Len(files) |-> k]
    /\ activeCount = 0
    /\ results = [k \in 1..Len(files) |-> <<>>]
    /\ completed = <<>>
    /\ reviews = {}

NextReview ==
    \/ StartReview
    \/ \E k \in 1..Len(files) : AstReturns(k)
    \/ \E k \in 1..Len(files) : AiReturns(k)
    \/ \E k \in 1..Len(files) : ReleaseSlot(k)
    \/ MergeResults

SpecReview == InitReview /\ [][NextReview]_vars

\* the event loop runs every callback that is ready, and every started
\* review settles
SpecReviewLive == SpecReview /\ WF_vars(NextReview)

(***************************************************************************)
(* Claims about reviewFiles.                                               *)
(***************************************************************************)
\* the last position of the input list that names the path
LastOf(path) ==
    CHOOSE k \in 1..Len(files) :
        /\ files[k] = path
        /\ \A j \in 1..Len(files) : files[j] = path => j <= k

OnePerPath ==
    /\ {e[1] : e \in reviews} = Range(files)
    /\ Cardinality(reviews) = Cardinality(Range(files))

ReviewFailed(k) == task[k].ast = "throws" \/ task[k].ai \in {"throws", "bad_json"}

\* C18 as stated: reviewFiles returns one result for every input path,
\* whatever subset of the files fails in AST analysis, AI call or response
\* parsing, and a failing file has a result with status 'ERROR'.
C18_FailingFileGetsError ==
    pc = "reviewed" =>
        /\ OnePerPath
        /\ \A e \in reviews :
              (task[LastOf(e[1])].ast = "tagged" \/ ReviewFailed(LastOf(e[1])))
                  => e[2].status = "ERROR"

\* C18, amended: reviewFiles returns one result for every input path; the
\* result of a path is that of its last occurrence in the input list,
\* whatever the order in which the reviews finished; it has status 'ERROR'
\* exactly when that review's AI call or response parsing failed or the
\* review threw, and otherwise the status its own AI answer gives, also
\* when its AST extraction came back with an error tag.
C18_PerFileIsolation ==
    pc = "reviewed" =>
        /\ OnePerPath
        /\ \A e \in reviews :
              LET k == LastOf(e[1])
              IN /\ e[2].file_path = e[1]
                 /\ e[2].status = IF ReviewFailed(k) THEN "ERROR"
                                  ELSE IF task[k].ai = "issues" THEN "WARNING"
                                  ELSE "PASS"

\* one path given twice: the second review finishes first and passes with a
\* tagged AST extraction, the first one fails in the AI call
C18_Witness ==
    /\ pc = "reviewed"
    /\ Len(files) = 2
    /\ files[1] = files[2]
    /\ completed = <<2, 1>>
    /\ task[1].ai = "throws"
    /\ task[2].ast = "tagged"
    /\ task[2].ai = "pass"
    /\ \E e \in reviews : e[2].status = "PASS"

Running == {k \in 1..Len(files) : task[k].st \in {"ast", "ai"}}

\* C19: at every moment the number of reviews started and not yet finished
\* is at most config.maxParallel, and every file of the input list is
\* eventually started, given that every started review finishes.
C19_BoundedConcurrency ==
    /\ [](Cardinality(Running) <= maxParallel /\ activeCount <= maxParallel)
    /\ <>(\A k \in 1..Len(files) : task[k].st # "queued")

\* the limit is reached while a review is still waiting in the queue
C19_Witness ==
    /\ pc = "reviewing"
    /\ Cardinality(Running) = maxParallel
    /\ queue # <<>>

(***************************************************************************)
(* addLineNumbersToDiff, splitHunks and computeHunkLineNumbers             *)
(* (src/src/diff_utils.js).  A line map is a set of [number, line] pairs   *)
(* with one pair per number.                                               *)
(***************************************************************************)
\* /@@ -(\d+),?(\d+)? \+(\d+),?(\d+)? @@/ tried at position p of the line
HunkMatchAt(s, p) ==
    LET a == p + 4
        n1 == DigitRun(s, a)
        b == a + n1
        b2 == IF HasAt(s, b, <<",">>) THEN b + 1 ELSE b
        c == b2 + DigitRun(s, b2)
        d == c + 2
        n2 == DigitRun(s, d)
        e == d + n2
        e2 == IF HasAt(s, e, <<",">>) THEN e + 1 ELSE e
        f == e2 + DigitRun(s, e2)
    IN IF /\ HasAt(s, p, <<"@", "@", " ", "-">>)
          /\ n1 > 0
          /\ HasAt(s, c, <<" ", "+">>)
          /\ n2 > 0
          /\ HasAt(s, f, <<" ", "@", "@">>)
       THEN [matched |-> TRUE,
             oldStart |-> ParseInt(SubSeq(s, a, b - 1)),
             newStart |-> ParseInt(SubSeq(s, d, e - 1))]
       ELSE [matched |-> FALSE, oldStart |-> 0, newStart |-> 0]

\* line.match(regex): the leftmost match
HunkMatch(s) ==
    IF \E p \in 1..Len(s) : HunkMatchAt(s, p).matched
    THEN HunkMatchAt(s, CHOOSE p \in 1..Len(s) :
              /\ HunkMatchAt(s, p).matched
              /\ \A q \in 1..(p - 1) : ~HunkMatchAt(s, q).matched)
    ELSE [matched |-> FALSE, oldStart |-> 0, newStart |-> 0]

\* the lines splitHunks skips before the first hunk
IsFileHeader(l) ==
    \/ StartsWith(l, <<"d", "i", "f", "f", " ", "-", "-", "g", "i", "t">>)
    \/ StartsWith(l, <<"-", "-", "-">>)
    \/ StartsWith(l, <<"+", "+", "+">>)
    \/ StartsWith(l, <<"i", "n", "d", "e", "x", " ">>)
    \/ StartsWith(l, <<"n", "e", "w", " ", "f", "i", "l", "e", " ">>)
    \/ StartsWith(l, <<"d", "e", "l", "e", "t", "e", "d", " ", "f", "i", "l", "e", " ">>)

EmptyHunk == [oldStart |-> 0, newStart |-> 0, hunkLines |-> <<>>]

\* lines.forEach of splitHunks, from line k on
RECURSIVE SplitFrom(_, _, _, _, _)
SplitFrom(lines, k, done, currentHunk, inHunk) ==
    IF k > Len(lines)
    THEN IF Len(currentHunk.hunkLines) > 0 THEN Append(done, currentHunk) ELSE done
    ELSE IF ~inHunk /\ IsFileHeader(lines[k])
    THEN SplitFrom(lines, k + 1, done, currentHunk, inHunk)
    ELSE IF StartsWith(lines[k], <<"@", "@">>)
    THEN LET match == HunkMatch(lines[k])
             closed == IF Len(currentHunk.hunkLines) > 0
                       THEN Append(done, currentHunk) ELSE done
             fresh == IF Len(currentHunk.hunkLines) > 0 THEN EmptyHunk ELSE currentHunk
             opened == IF match.matched
                       THEN [fresh EXCEPT !.oldStart = match.oldStart,
                                          !.newStart = match.newStart]
                       ELSE fresh
         IN SplitFrom(lines, k + 1, closed,
                      [opened EXCEPT !.hunkLines = Append(opened.hunkLines, lines[k])],
                      TRUE)
    ELSE IF inHunk
    THEN SplitFrom(lines, k + 1, done,
                   [currentHunk EXCEPT !.hunkLines = Append(currentHunk.hunkLines, lines[k])],
                   inHunk)
    ELSE SplitFrom(lines, k + 1, done, currentHunk, inHunk)

splitHunks(text) == SplitFrom(Split(text), 1, <<>>, EmptyHunk, FALSE)

\* `(${oldLineNumber}, )`, `( , ${newLineNumber})`, `(${old}, ${new})`
DeletedHeader(old) == <<"(">> \o NumToStr(old) \o <<",", " ", ")">>
AddedHeader(new) == <<"(", " ", ",", " ">> \o NumToStr(new) \o <<")">>
ContextHeader(old, new) ==
    <<"(">> \o NumToStr(old) \o <<",", " ">> \o NumToStr(new) \o <<")">>

\* header.padEnd(n)
PadEnd(s, n) == s \o [k \in 1..(n - Len(s)) |-> " "]

\* maxHeaderLength of the pairs collected so far
RECURSIVE MaxHeaderLength(_)
MaxHeaderLength(pairs) ==
    IF Len(pairs) = 0 THEN 0
    ELSE Max(Len(pairs[Len(pairs)][1]),
             MaxHeaderLength(SubSeq(pairs, 1, Len(pairs) - 1)))

\* mutant: a counter moves by two
Increment_ByTwo(n) == n + 2

\* oldLineNumber++, newLineNumber++
Increment(n) == n + 1

hunk == hunks[hunkIndex]
hunkLine == hunk.hunkLines[lineIndex + 1]

\* const hunks = splitHunks(diffText)
SplitHunks ==
    /\ pc = "split"
    /\ hunks' = splitHunks(diffText)
    /\ pc' = "next_hunk"
    /\ UNCHANGED <<guardVars, diffVars, addedLines, astVars, extractVars, reviewVars, hunkIndex,
                   lineIndex, oldLineNumber, newLineNumber, oldLinesMap, newLinesMap,
                   temp, extendedDiffParts, allOldLinesMap, allNewLinesMap>>

\* computeHunkLineNumbers, lines 105-113: the counters start at the header's
\* numbers, the header line is kept as it is
StartHunk ==
    /\ pc = "next_hunk"
    /\ hunkIndex < Len(hunks)
    /\ hunkIndex' = hunkIndex + 1
    /\ lineIndex' = 1
    /\ oldLineNumber' = hunks[hunkIndex'].oldStart
    /\ newLineNumber' = hunks[hunkIndex'].newStart
    /\ oldLinesMap' = {}
    /\ newLinesMap' = {}
    /\ temp' = <<>>
    /\ pc' = "hunk_lines"
    /\ UNCHANGED <<guardVars, diffVars, addedLines, astVars, extractVars, reviewVars, hunks,
                   extendedDiffParts, allOldLinesMap, allNewLinesMap>>

\* line.startsWith('-')
OnHunkDeleted ==
    /\ pc = "hunk_lines"
    /\ lineIndex < Len(hunk.hunkLines)
    /\ StartsWith(hunkLine, <<"-">>)
    /\ temp' = Append(temp, <<DeletedHeader(oldLineNumber), hunkLine>>)
    /\ oldLinesMap' = MapSet(oldLinesMap, oldLineNumber, hunkLine)
    /\ oldLineNumber' = Increment(oldLineNumber)
    /\ lineIndex' = lineIndex + 1
    /\ UNCHANGED <<guardVars, diffVars, addedLines, astVars, extractVars, reviewVars, pc, hunks,
                   hunkIndex, newLineNumber, newLinesMap, extendedDiffParts,
                   allOldLinesMap, allNewLinesMap>>

\* line.startsWith('+')
OnHunkAdded ==
    /\ pc = "hunk_lines"
    /\ lineIndex < Len(hunk.hunkLines)
    /\ ~StartsWith(hunkLine, <<"-">>)
    /\ StartsWith(hunkLine, <<"+">>)
    /\ temp' = Append(temp, <<AddedHeader(newLineNumber), hunkLine>>)
    /\ newLinesMap' = MapSet(newLinesMap, newLineNumber, hunkLine)
    /\ newLineNumber' = Increment(newLineNumber)
    /\ lineIndex' = lineIndex + 1
    /\ UNCHANGED <<guardVars, diffVars, addedLines, astVars, extractVars, reviewVars, pc, hunks,
                   hunkIndex, oldLineNumber, oldLinesMap, extendedDiffParts,
                   allOldLinesMap, allNewLinesMap>>

\* any other line
OnHunkContext ==
    /\ pc = "hunk_lines"
    /\ lineIndex < Len(hunk.hunkLines)
    /\ ~StartsWith(hunkLine, <<"-">>)
    /\ ~StartsWith(hunkLine, <<"+">>)
    /\ temp' = Append(temp, <<ContextHeader(oldLineNumber, newLineNumber), hunkLine>>)
    /\ oldLinesMap' = MapSet(oldLinesMap, oldLineNumber, hunkLine)
    /\ newLinesMap' = MapSet(newLinesMap, newLineNumber, hunkLine)
    /\ oldLineNumber' = Increment(oldLineNumber)
    /\ newLineNumber' = Increment(newLineNumber)
    /\ lineIndex' = lineIndex + 1
    /\ UNCHANGED <<guardVars, diffVars, addedLines, astVars, extractVars, reviewVars, pc, hunks,
                   hunkIndex, extendedDiffParts, allOldLinesMap, allNewLinesMap>>

\* newHunkLines: the header line, then `${header.padEnd(max)} ${line}`
NewHunkLines ==
    <<hunk.hunkLines[1]>> \o
    [k \in 1..Len(temp) |->
        PadEnd(temp[k][1], MaxHeaderLength(temp)) \o <<" ">> \o temp[k][2]]

\* map.forEach((line, lineNum) => all.set(lineNum, line))
MergeMap(all, m) == {e \in all : \A f \in m : f[1] # e[1]} \cup m

\* lines 143-147 and 160-165: the hunk is formatted and its maps are merged
FinishHunk ==
    /\ pc = "hunk_lines"
    /\ lineIndex = Len(hunk.hunkLines)
    /\ extendedDiffParts' = Append(extendedDiffParts, Join(NewHunkLines, <<NL>>))
    /\ allNewLinesMap' = MergeMap(allNewLinesMap, newLinesMap)
    /\ allOldLinesMap' = MergeMap(allOldLinesMap, oldLinesMap)
    /\ pc' = "next_hunk"
    /\ UNCHANGED <<guardVars, diffVars, addedLines, astVars, extractVars, reviewVars, hunks,
                   hunkIndex, lineIndex, oldLineNumber, newLineNumber, oldLinesMap,
                   newLinesMap, temp>>

\* lines 168-172
ReturnNumbered ==
    /\ pc = "next_hunk"
    /\ hunkIndex = Len(hunks)
    /\ pc' = "numbered"
    /\ UNCHANGED <<guardVars, diffVars, addedLines, astVars, extractVars, reviewVars, hunkVars>>

InitHunk ==
    /\ IdleGuards
    /\ pc = "split"
    /\ diffText \in {Join(ls, <<NL>>) : ls \in LinesUpTo(DiffLineSet, MaxDiffLines)}
    /\ i = 0
    /\ currentNewLine = -1
    /\ mapping = <<>>
    /\ addedLines = {}
    /\ IdleAst
    /\ IdleExtract
    /\ IdleHunk
    /\ IdleReview

NextHunk ==
    \/ SplitHunks
    \/ StartHunk
    \/ OnHunkDeleted
    \/ OnHunkAdded
    \/ OnHunkContext
    \/ FinishHunk
    \/ ReturnNumbered

SpecHunk == InitHunk /\ [][NextHunk]_vars

(***************************************************************************)
(* Claims about the line numbering of the hunks.                           *)
(***************************************************************************)
\* the body lines of the running hunk consumed so far (positions in hunkLines)
Seen == 2..lineIndex

OldSide(l) == StartsWith(l, <<"-">>) \/ ~StartsWith(l, <<"+">>)
NewSide(l) == ~StartsWith(l, <<"-">>)

\* the counters before the line at position k of the hunk is consumed
OldBefore(k) ==
    hunk.oldStart + Cardinality({j \in 2..(k - 1) : OldSide(hunk.hunkLines[j])})
NewBefore(k) ==
    hunk.newStart + Cardinality({j \in 2..(k - 1) : NewSide(hunk.hunkLines[j])})

\* C20: in computeHunkLineNumbers, after every prefix of the lines of a
\* hunk, the old counter is oldStart plus the number of '-' and context
\* lines seen and the new counter is newStart plus the number of '+' and
\* context lines seen; a '-' line is registered only in the old map, under
\* the old counter's value before the step, a '+' line only in the new map,
\* and any other line in both.
C20_LineMapCounters ==
    pc = "hunk_lines" =>
        /\ oldLineNumber = OldBefore(lineIndex + 1)
        /\ newLineNumber = NewBefore(lineIndex + 1)
        /\ oldLinesMap = {<<OldBefore(k), hunk.hunkLines[k]>> :
                             k \in {j \in Seen : OldSide(hunk.hunkLines[j])}}
        /\ newLinesMap = {<<NewBefore(k), hunk.hunkLines[k]>> :
                             k \in {j \in Seen : NewSide(hunk.hunkLines[j])}}

\* a hunk whose '-' line, '+' line and context line have all been consumed
C20_Witness ==
    /\ pc = "hunk_lines"
    /\ lineIndex = 4
    /\ \E j \in Seen : StartsWith(hunk.hunkLines[j], <<"-">>)
    /\ \E j \in Seen : StartsWith(hunk.hunkLines[j], <<"+">>)
    /\ \E j \in Seen : OldSide(hunk.hunkLines[j]) /\ NewSide(hunk.hunkLines[j])
    /\ hunk.newStart = 4
    /\ Cardinality(oldLinesMap) = 2
    /\ Cardinality(newLinesMap) = 2

(***************************************************************************)
(* reviewSingleFile, lines 17-22 (src/src/review_engine.js): both diff     *)
(* parsers run on the same diff text, addLineNumbersToDiff first.  The     *)
(* text is first the diff as the API gives it, then the same diff behind   *)
(* the file header prepareFilesForReview (src/src/main.js) puts in front.  *)
(***************************************************************************)
\* mutant: the counter starts as if a header at line 0 had been seen
InitialNewLine_Zero == -1 + 1

\* let currentNewLine = -1
InitialNewLine == -1

\* const addedLinesMap = parseDiffNewlineMap(diffText)
StartParse ==
    /\ pc = "numbered"
    /\ pc' = "parse"
    /\ i' = 0
    /\ currentNewLine' = InitialNewLine
    /\ mapping' = <<>>
    /\ UNCHANGED <<diffText, addedLines, astVars, restVars>>

DiffGitLine == <<"d", "i", "f", "f", " ", "-", "-", "g", "i", "t", " ",
                 "a", "/", "f", " ", "b", "/", "f">>
OldPathLine == <<"-", "-", "-", " ", "a", "/", "f">>
NewPathLine == <<"+", "+", "+", " ", "b", "/", "f">>
IndexLine == <<"i", "n", "d", "e", "x", " ", "0", ".", ".", "1">>
NewFileLine == <<"n", "e", "w", " ", "f", "i", "l", "e", " ", "m", "o", "d", "e">>
DeletedFileLine ==
    <<"d", "e", "l", "e", "t", "e", "d", " ", "f", "i", "l", "e", " ", "m", "o", "d", "e">>

\* `diff --git a/${d.old_path} b/${d.new_path}\n--- a/${d.old_path}\n+++ b/${d.new_path}\n`,
\* and the headers git itself writes for a changed, a new and a deleted file
FileHeaders ==
    {<<DiffGitLine, OldPathLine, NewPathLine>>,
     <<DiffGitLine, NewFileLine, IndexLine, OldPathLine, NewPathLine>>,
     <<DiffGitLine, DeletedFileLine, IndexLine, OldPathLine, NewPathLine>>}

\* header + d.diff
WithHeader(header, diff) == Join(header, <<NL>>) \o <<NL>> \o diff

\* what reviewSingleFile has after line 22
Parsed ==
    [diff |-> diffText,
     mapping |-> mapping,
     addedLines |-> addedLines,
     newLinesMap |-> allNewLinesMap,
     oldLinesMap |-> allOldLinesMap]

\* the same diff goes through lines 17-22 again, now behind a file header
PrependHeader ==
    /\ pc = "parsed"
    /\ calls = 1
    /\ calls' = 2
    /\ previous' = <<Parsed>>
    /\ \E header \in FileHeaders : diffText' = WithHeader(header, diffText)
    /\ pc' = "split"
    /\ i' = 0
    /\ currentNewLine' = InitialNewLine
    /\ mapping' = <<>>
    /\ addedLines' = {}
    /\ hunks' = <<>>
    /\ hunkIndex' = 0
    /\ lineIndex' = 0
    /\ oldLineNumber' = 0
    /\ newLineNumber' = 0
    /\ oldLinesMap' = {}
    /\ newLinesMap' = {}
    /\ temp' = <<>>
    /\ extendedDiffParts' = <<>>
    /\ allOldLinesMap' = {}
    /\ allNewLinesMap' = {}
    /\ UNCHANGED <<guardVars, astVars, reviewVars, filePath, world, astConfig, effects, errors,
                   thrown, returned>>

\* the diffs: one line fewer than SpecDiff, each goes through both parsers twice
SingleTexts == {Join(ls, <<NL>>) : ls \in LinesUpTo(DiffLineSet, MaxDiffLines - 1)}

InitSingle ==
    /\ IdleGuards
    /\ pc = "split"
    /\ diffText \in SingleTexts
    /\ i = 0
    /\ currentNewLine = InitialNewLine
    /\ mapping = <<>>
    /\ addedLines = {}
    /\ IdleAst
    /\ IdleExtract
    /\ IdleHunk
    /\ IdleReview

NextSingle ==
    \/ NextHunk
    \/ StartParse
    \/ NextDiff
    \/ PrependHeader

SpecSingle == InitSingle /\ [][NextSingle]_vars

(***************************************************************************)
(* Claims about the two diff parsers run on one diff text.                 *)
(***************************************************************************)
\* the hunk of splitHunks the diff line at position k went to, and its place there
HunkNumber(k) == Cardinality({h \in 1..k : IsHunkLine(diffLines[h])})
PlaceInHunk(k) == k - (IF IsHunkLine(diffLines[k]) THEN k ELSE HunkOf(k)) + 1

\* the keys computeHunkLineNumbers registers the line at place j of hunk h under
HunkOldKey(h, j) ==
    hunks[h].oldStart + Cardinality({q \in 2..(j - 1) : OldSide(hunks[h].hunkLines[q])})
HunkNewKey(h, j) ==
    hunks[h].newStart + Cardinality({q \in 2..(j - 1) : NewSide(hunks[h].hunkLines[q])})

\* the hunk's '@@' line matches the pattern of splitHunks
WellFormed(h) == HunkMatch(hunks[h].hunkLines[1]).matched

RegisteredBy(h, j, e, side) ==
    IF side = "new"
    THEN NewSide(hunks[h].hunkLines[j]) /\ e = <<HunkNewKey(h, j), hunks[h].hunkLines[j]>>
    ELSE OldSide(hunks[h].hunkLines[j]) /\ e = <<HunkOldKey(h, j), hunks[h].hunkLines[j]>>

FromWellFormedHunk(e, side) ==
    \E h \in 1..Len(hunks) :
        /\ WellFormed(h)
        /\ \E j \in 2..Len(hunks[h].hunkLines) : RegisteredBy(h, j, e, side)

\* C21: for a line starting with '@@' that does not match the hunk-header
\* pattern, neither parseDiffNewlineMap nor addLineNumbersToDiff emits a
\* line mapping for the lines that follow it, until the next valid header:
\* every pair of the mapping lies in a hunk whose header matched, and every
\* entry of the two line maps was registered by a hunk whose header matched.
C21_MalformedHeaderMapsNothing ==
    pc = "parsed" =>
        /\ \A m \in 1..Len(mapping) :
               /\ HunkOf(mapping[m][1]) # 0
               /\ HeaderExec(diffLines[HunkOf(mapping[m][1])]).matched
        /\ \A e \in allNewLinesMap : FromWellFormedHunk(e, "new")
        /\ \A e \in allOldLinesMap : FromWellFormedHunk(e, "old")

\* the number of lines put in front of the diff
Prepended == Len(diffLines) - Len(Split(previous[1].diff))

\* C22: putting the file-header lines ('diff --git', '---', '+++', 'index',
\* 'new file', 'deleted file') in front of a diff leaves the Added-Line Set
\* and the old and new line maps of addLineNumbersToDiff as they were; the
\* diff positions of parseDiffNewlineMap move by the number of lines put in
\* front and its new-file numbers stay.
C22_FileHeaderTolerance ==
    (pc = "parsed" /\ calls = 2) =>
        /\ addedLines = previous[1].addedLines
        /\ allNewLinesMap = previous[1].newLinesMap
        /\ allOldLinesMap = previous[1].oldLinesMap
        /\ mapping = [m \in 1..Len(previous[1].mapping) |->
                         <<previous[1].mapping[m][1] + Prepended,
                           previous[1].mapping[m][2]>>]

\* a diff with an added and a deleted line behind the five-line header of a
\* new file
C22_Witness ==
    /\ pc = "parsed"
    /\ calls = 2
    /\ Prepended = 5
    /\ Len(mapping) >= 1
    /\ mapping[1][1] > 6
    /\ allOldLinesMap # {}
    /\ \E k \in 1..Len(diffLines) : diffLines[k] = NewFileLine

\* C29: for every line that begins with '+' inside a hunk with a valid
\* header, the new-file line number parseDiffNewlineMap assigns to the line
\* equals the key under which addLineNumbersToDiff registers it in
\* newLinesMap, also when the hunk has deleted lines whose text begins with
\* '--' or added lines whose text begins with '++'.
C29_ParsersAgree ==
    pc = "parsed" =>
        \A k \in 1..Len(diffLines) :
            (/\ ~IsHunkLine(diffLines[k])
             /\ PlusLine(diffLines[k])
             /\ HunkOf(k) # 0
             /\ HeaderExec(diffLines[HunkOf(k)]).matched
             /\ WellFormed(HunkNumber(k)))
                => \E m \in 1..Len(mapping) :
                       /\ mapping[m][1] = k
                       /\ mapping[m][2] = HunkNewKey(HunkNumber(k), PlaceInHunk(k))

(***************************************************************************)
(* withTimeout (src/src/ast_utils.js) and its two callers, lines 40-51 of  *)
(* src/src/ast_context.js and lines 370-396 of src/unnamed/part_002.       *)
(* Both callers hand it the promise of a parse that has already run:       *)
(* parseCode is an async function without an await, and the executor of    *)
(* parsePromise runs parseSFC at once.  withTimeout is exported; another   *)
(* caller may hand it a promise that settles later.  A settled promise is  *)
(* served by a microtask, before any timer callback.                       *)
(***************************************************************************)
MaxParseTime == 3
MaxTimeoutMs == 2

TimeoutMessage == "timeout"

Settled(w) == w \in {"fulfilled", "rejected"}

\* parseCode(code) / the executor of parsePromise: the parse runs to its end
\* before withTimeout is called
CallParse ==
    /\ pc = "parse_call"
    /\ lang \in {"js", "vue"}
    /\ clock' = clock + duration
    /\ \E outcome \in {"fulfilled", "rejected"} : work' = outcome
    /\ pc' = "with_timeout"
    /\ UNCHANGED <<diffVars, addedLines, astVars, extractVars, hunkVars, reviewVars,
                   traverseVars, timeoutMs, duration, timer, race>>

\* another caller: the wrapped work has been started and settles later
StartWork ==
    /\ pc = "parse_call"
    /\ lang = "none"
    /\ work' = "pending"
    /\ pc' = "with_timeout"
    /\ UNCHANGED <<diffVars, addedLines, astVars, extractVars, hunkVars, reviewVars,
                   traverseVars, clock, timeoutMs, duration, timer, race>>

\* lines 47-56: the timer is armed, the race is awaited
ArmTimer ==
    /\ pc = "with_timeout"
    /\ timer' = <<clock + timeoutMs>>
    /\ race' = "pending"
    /\ pc' = "awaiting"
    /\ UNCHANGED <<diffVars, addedLines, astVars, extractVars, hunkVars, reviewVars,
                   traverseVars, clock, timeoutMs, duration, work>>

\* the event loop is idle and nothing is due yet
Tick ==
    /\ pc = "awaiting"
    /\ work = "pending"
    /\ clock < duration
    /\ clock < timer[1]
    /\ clock' = clock + 1
    /\ UNCHANGED <<diffVars, addedLines, astVars, extractVars, hunkVars, reviewVars,
                   traverseVars, pc, timeoutMs, duration, work, timer, race>>

\* the pending work settles
WorkSettles ==
    /\ pc = "awaiting"
    /\ work = "pending"
    /\ clock >= duration
    /\ \E outcome \in {"fulfilled", "rejected"} : work' = outcome
    /\ UNCHANGED <<diffVars, addedLines, astVars, extractVars, hunkVars, reviewVars,
                   traverseVars, pc, clock, timeoutMs, duration, timer, race>>

\* a timer callback runs only when no microtask is waiting
TimerMayFire(w) == ~Settled(w)

\* lines 50-52: the timer rejects the race
TimerFires ==
    /\ pc = "awaiting"
    /\ race = "pending"
    /\ clock >= timer[1]
    /\ TimerMayFire(work)
    /\ race' = "timeout"
    /\ timer' = <<>>
    /\ pc' = "raced"
    /\ UNCHANGED <<diffVars, addedLines, astVars, extractVars, hunkVars, reviewVars,
                   traverseVars, clock, timeoutMs, duration, work>>

\* lines 56-61: the race settles as the wrapped promise did; clearTimeout
RaceSettles ==
    /\ pc = "awaiting"
    /\ race = "pending"
    /\ Settled(work)
    /\ race' = work
    /\ timer' = <<>>
    /\ pc' = "raced"
    /\ UNCHANGED <<diffVars, addedLines, astVars, extractVars, hunkVars, reviewVars,
                   traverseVars, clock, timeoutMs, duration, work>>

\* the tag of the caller's catch
ParseErrorTag(l, r) ==
    Tag(IF l = "js" THEN "parse_error" ELSE "sfc_parse_error",
        IF r = "timeout" THEN TimeoutMessage ELSE ParseMessage)

\* the caller's try/catch around the await: the AST, or the tag and return
AfterRace ==
    /\ pc = "raced"
    /\ IF lang = "none"
       THEN pc' = "settled" /\ UNCHANGED <<errors, result>>
       ELSE IF race = "fulfilled"
       THEN pc' = "analyse" /\ UNCHANGED <<errors, result>>
       ELSE /\ errors' = Append(errors, ParseErrorTag(lang, race))
            /\ result' = <<>>
            /\ pc' = "done"
    /\ UNCHANGED <<diffVars, addedLines, lang, code, nodes, scriptStartLine, config,
                   allSections, selectedSections, filePath, world, astConfig, effects,
                   thrown, returned, calls, previous, hunkVars, reviewVars, guardVars>>

InitTimeout ==
    /\ pc = "parse_call"
    /\ IdleDiff
    /\ addedLines = {}
    /\ lang \in {"js", "vue", "none"}
    /\ code = <<>>
    /\ nodes = <<>>
    /\ scriptStartLine = 1
    /\ config = NoAstConfig
    /\ allSections = <<>>
    /\ selectedSections = <<>>
    /\ result = <<>>
    /\ IdleExtract
    /\ IdleHunk
    /\ IdleReview
    /\ clock = 0
    /\ timeoutMs \in 1..MaxTimeoutMs
    /\ duration \in 0..MaxParseTime
    /\ work = "none"
    /\ timer = <<>>
    /\ race = "none"
    /\ kinds = <<>>
    /\ maxDepth = 1
    /\ limiters = <<>>
    /\ walk = 0
    /\ stack = <<>>
    /\ cursor = 0

NextTimeout ==
    \/ CallParse
    \/ StartWork
    \/ ArmTimer
    \/ Tick
    \/ WorkSettles
    \/ TimerFires
    \/ RaceSettles
    \/ AfterRace

SpecTimeout == InitTimeout /\ [][NextTimeout]_vars

(***************************************************************************)
(* Claims about the parse timeout.                                         *)
(***************************************************************************)
\* C27: withTimeout settles with the outcome of whichever of the wrapped
\* work and the timer finishes first, and when parsing a source or a
\* component file takes longer than config.timeoutMs the extractor returns
\* no Section and an error tag carrying the timeout message (no exception
\* reaches the caller).
C27_ParseTimeout ==
    /\ pc = "raced" =>
          /\ race = "timeout" => (~Settled(work) /\ clock >= timeoutMs)
          /\ race # "timeout" => race = work
    /\ (lang \in {"js", "vue"} /\ duration > timeoutMs /\ pc \in {"analyse", "done"}) =>
          /\ pc = "done"
          /\ result = <<>>
          /\ errors = <<ParseErrorTag(lang, "timeout")>>
          /\ thrown = <<>>

(***************************************************************************)
(* The traversal of collectImpactedSections (src/src/ast_context.js) and   *)
(* collectScriptSections (src/unnamed/part_002) under the depth limiter    *)
(* of createDepthLimiter (src/src/ast_utils.js), one enter or exit         *)
(* callback per step.  The AST is a Program node (0) around the nodes of   *)
(* the model, which are targets, other nodes, or targets without loc.      *)
(* The extraction runs twice, so that a second limiter is created.         *)
(***************************************************************************)
MaxDepth == 3

Kinds == {"target", "other", "noloc"}

\* `AST traversal depth exceeded (>${maxDepth})`, and any other message
DepthMessage(limit) == <<"AST", "depth", "exceeded", limit>>
OtherMessage == <<TraverseMessage>>

\* mutant: no error is taken for the depth limit
IsDepthError_Never(message) == FALSE

\* error.message.includes(<the words of the depth message>)
IsDepthError(message) == \E k \in 1..Len(message) : message[k] = "exceeded"

\* mutant: one counter for all limiters
LimiterOf_Shared(w) == 1

\* createDepthLimiter: every call has its own currentDepth
LimiterOf(w) == w

currentDepth == limiters[LimiterOf(walk)]

\* node k lies in node p of the tree
Inside(k, p) ==
    \/ p = 0
    \/ /\ p < k
       /\ nodes[p].start <= nodes[k].start
       /\ nodes[k].end <= nodes[p].end

Top == stack[Len(stack)]

\* the node traverse enters next, if it enters one
NextToEnter ==
    IF stack = <<>> THEN (IF cursor = 0 THEN {0} ELSE {})
    ELSE IF cursor \in 1..Len(nodes) /\ Inside(cursor, Top) THEN {cursor}
    ELSE {}

\* lines 103-140 of the enter callback: what it pushes for node k
Recorded(k) ==
    LET added == IF lang = "js" THEN addedLines ELSE adjustedAddedLines
    IN IF k = 0 \/ kinds[k] # "target" THEN <<>>
       ELSE IF Len(RelevantLines(added, nodes[k])) = 0 THEN <<>>
       ELSE IF lang = "js" THEN <<JsCandidate(k, added)>>
       ELSE <<VueCandidate(k, added)>>

\* const depthLimiter = createDepthLimiter(config.maxDepth)
CreateLimiter ==
    /\ pc = "collect"
    /\ lang = "vue" => adjustedAddedLines # {}
    /\ limiters' = Append(limiters, 0)
    /\ stack' = <<>>
    /\ cursor' = 0
    /\ pc' = "traverse"
    /\ UNCHANGED <<diffVars, addedLines, astVars, extractVars, hunkVars, reviewVars,
                   timeoutVars, kinds, maxDepth, walk>>

\* enter(astPath): depthLimiter.enter(), then one of the four paths
Enter ==
    /\ pc = "traverse"
    /\ \E k \in NextToEnter :
          /\ limiters' = [limiters EXCEPT ![LimiterOf(walk)] = @ + 1]
          /\ stack' = Append(stack, k)
          /\ cursor' = k + 1
          /\ IF limiters'[LimiterOf(walk)] > maxDepth
             THEN /\ thrown' = <<[at |-> "traverse", message |-> DepthMessage(maxDepth)]>>
                  /\ pc' = "traverse_threw"
                  /\ UNCHANGED allSections
             ELSE /\ allSections' = allSections \o Recorded(k)
                  /\ UNCHANGED <<thrown, pc>>
    /\ UNCHANGED <<diffVars, addedLines, lang, code, nodes, scriptStartLine, config,
                   selectedSections, result, filePath, world, astConfig, effects, errors,
                   returned, calls, previous, hunkVars, reviewVars, timeoutVars, kinds,
                   maxDepth, walk>>

\* the callback, or the traversal itself, throws another error at a node
EnterThrows ==
    /\ pc = "traverse"
    /\ \E k \in NextToEnter :
          /\ limiters' = [limiters EXCEPT ![LimiterOf(walk)] = @ + 1]
          /\ limiters'[LimiterOf(walk)] <= maxDepth
          /\ stack' = Append(stack, k)
          /\ cursor' = k + 1
    /\ thrown' = <<[at |-> "traverse", message |-> OtherMessage]>>
    /\ pc' = "traverse_threw"
    /\ UNCHANGED <<diffVars, addedLines, astVars, filePath, world, astConfig, effects,
                   errors, returned, calls, previous, hunkVars, reviewVars, timeoutVars,
                   kinds, maxDepth, walk>>

\* exit(): the node on top has no child left
Exit ==
    /\ pc = "traverse"
    /\ stack # <<>>
    /\ NextToEnter = {}
    /\ limiters' = [limiters EXCEPT ![LimiterOf(walk)] = @ - 1]
    /\ stack' = SubSeq(stack, 1, Len(stack) - 1)
    /\ UNCHANGED <<diffVars, addedLines, astVars, extractVars, hunkVars, reviewVars,
                   timeoutVars, kinds, maxDepth, walk, cursor, pc>>

\* traverse returns; return sections
TraverseReturns ==
    /\ pc = "traverse"
    /\ stack = <<>>
    /\ cursor > 0
    /\ pc' = "select"
    /\ UNCHANGED <<diffVars, addedLines, astVars, extractVars, hunkVars, reviewVars,
                   guardVars>>

\* the catch of the collector (a warning for the depth limit, else the error
\* is thrown on) and the catch of the extractor around it
CatchTraverse ==
    /\ pc = "traverse_threw"
    /\ IF IsDepthError(thrown[1].message)
       THEN /\ effects' = effects \cup {"warn"}
            /\ pc' = "select"
            /\ UNCHANGED <<errors, result>>
       ELSE /\ errors' = Append(errors, Tag(IF lang = "js" THEN "traverse_error"
                                             ELSE "script_traverse_error",
                                             thrown[1].message))
            /\ result' = <<>>
            /\ pc' = IF lang = "js" THEN "done" ELSE "merge"
            /\ UNCHANGED effects
    /\ UNCHANGED <<diffVars, addedLines, lang, code, nodes, scriptStartLine, config,
                   allSections, selectedSections, filePath, world, astConfig, thrown,
                   returned, calls, previous, hunkVars, reviewVars, guardVars>>

\* the extraction is called again: a new limiter, the old ones are garbage
NextTraversal ==
    /\ pc = "done"
    /\ walk = 1
    /\ walk' = 2
    /\ previous' = limiters
    /\ pc' = "collect"
    /\ allSections' = <<>>
    /\ selectedSections' = <<>>
    /\ result' = <<>>
    /\ errors' = <<>>
    /\ thrown' = <<>>
    /\ effects' = {}
    /\ stack' = <<>>
    /\ cursor' = 0
    /\ UNCHANGED <<diffVars, addedLines, lang, code, nodes, scriptStartLine, config,
                   filePath, world, astConfig, returned, calls, hunkVars, reviewVars,
                   timeoutVars, kinds, maxDepth, limiters>>

\* the ASTs of the traversal: every node starts and ends with a line
LineAsts(text) ==
    {a \in ExtractAsts(text) :
        \A k \in 1..Len(a) :
            /\ a[k].start = 0 \/ text[a[k].start] = NL
            /\ a[k].end = Len(text) \/ text[a[k].end + 1] = NL}

InitTraverse ==
    /\ pc = "collect"
    /\ IdleDiff
    /\ lang \in {"js", "vue"}
    /\ code \in ExtractTexts \ {<<>>}
    /\ nodes \in LineAsts(code)
    /\ scriptStartLine = 1
    /\ addedLines \in SUBSET (1..(MaxCodeLines - 1))
    /\ config \in ConfigSet
    /\ allSections = <<>>
    /\ selectedSections = <<>>
    /\ result = <<>>
    /\ IdleExtract
    /\ IdleHunk
    /\ IdleReview
    /\ clock = 0
    /\ timeoutMs = 1
    /\ duration = 0
    /\ work = "none"
    /\ timer = <<>>
    /\ race = "none"
    /\ kinds \in [1..Len(nodes) -> Kinds]
    /\ maxDepth \in 0..MaxDepth
    /\ limiters = <<>>
    /\ walk = 1
    /\ stack = <<>>
    /\ cursor = 0

NextTraverse ==
    \/ CreateLimiter
    \/ Enter
    \/ EnterThrows
    \/ Exit
    \/ TraverseReturns
    \/ CatchTraverse
    \/ VueSkip
    \/ JsSelect
    \/ JsLimit
    \/ VueSelect
    \/ VueRemap
    \/ VueMerge
    \/ NextTraversal

SpecTraverse == InitTraverse /\ [][NextTraverse]_vars

(***************************************************************************)
(* Claims about the depth guard and the errors of the traversal.           *)
(***************************************************************************)
\* the enter callback has thrown the error of the depth limiter
Exceeded == thrown # <<>> /\ thrown[1].message = DepthMessage(maxDepth)

\* the enter callback has thrown another error
OtherThrown == thrown # <<>> /\ thrown[1].message = OtherMessage

\* the candidates of the nodes entered before node k
RecordedBefore(k) ==
    LET upTo[j \in 0..Len(nodes)] ==
            IF j = 0 THEN <<>>
            ELSE IF j < k THEN upTo[j - 1] \o Recorded(j)
            ELSE upTo[j - 1]
    IN upTo[Len(nodes)]

\* C26: when the traversal enters a node at a depth over maxDepth, it stops
\* there, the candidates collected before that node are kept and go through
\* selection and truncation, and no traverse_error tag is added; when the
\* traversal raises any other error, the result has no Sections and one
\* 'traverse_error: <detail>' tag.
C26_DepthExceededKeepsCandidates ==
    /\ Exceeded =>
          /\ pc \in {"traverse_threw", "select", "limit", "remap", "merge", "done"}
          /\ cursor = Top + 1
          /\ allSections = RecordedBefore(Top)
    /\ (Exceeded /\ lang = "js" /\ pc \in {"select", "limit", "done"}) =>
          errors = <<>>
    /\ (Exceeded /\ lang = "js" /\ pc = "done") =>
          LET selected == selectSmallestSections(RecordedBefore(Top), addedLines)
          IN result = [k \in 1..Len(selected) |-> limitSectionSize(selected[k])]
    /\ (OtherThrown /\ lang = "js" /\ pc # "traverse_threw") =>
          /\ pc = "done"
          /\ result = <<>>
          /\ errors = <<Tag("traverse_error", OtherMessage)>>

\* a JS extraction that passed the depth limit under a recorded unit and
\* returns that unit
C26_Witness ==
    /\ lang = "js"
    /\ pc = "done"
    /\ Exceeded
    /\ allSections # <<>>
    /\ result # <<>>
    /\ errors = <<>>

\* C30: the counter of a limiter is the number of nodes entered and not yet
\* exited, whichever path the enter callback took; it stays within
\* 0..maxDepth + 1, it is 0 after a traversal that completes, and a
\* traversal leaves the counters of the other traversals alone.
C30_DepthGuardBalance ==
    /\ \A w \in 1..Len(limiters) : limiters[w] \in 0..(maxDepth + 1)
    /\ pc \in {"traverse", "traverse_threw"} =>
          /\ Len(limiters) = walk
          /\ limiters[walk] = Len(stack)
    /\ (pc \in {"select", "limit", "remap", "merge", "done"} /\ thrown = <<>>
            /\ Len(limiters) = walk) =>
          limiters[walk] = 0
    /\ walk = 2 =>
          /\ Len(previous) <= Len(limiters)
          /\ SubSeq(limiters, 1, Len(previous)) = previous

\* the second traversal is two nodes deep, below a non-target node, while
\* the counter of the first one rests where the depth error left it
C30_Witness ==
    /\ walk = 2
    /\ pc = "traverse"
    /\ Len(limiters) = 2
    /\ limiters[1] = maxDepth + 1
    /\ limiters[2] = 2
    /\ Len(stack) = 2
    /\ kinds[stack[2]] # "target"
====
